---- MODULE Spec2Model ----
(***************************************************************************)
(* Model of law/job/base.py: the batch engine of BaseJobManager            *)
(* (submit_batch, cancel_batch, cleanup_batch, query_batch) running the    *)
(* atomic operations of a backend on a multiprocessing.pool.ThreadPool.    *)
(*                                                                         *)
(* Python values are encoded as records [kind, call, tag, elems]:          *)
(*   "val"  an opaque result (job id, status record) returned by atomic    *)
(*          call number `call`; `tag` is the position in the chunk         *)
(*          (submit) or the job id the record is about (query);            *)
(*   "exc"  the exception raised by atomic call number `call`;             *)
(*   "none" Python's None;                                                 *)
(*   "list" a list, `elems` its elements;                                  *)
(*   "dict" a dict, `elems` its <<key, value>> items in insertion order.   *)
(* An optional integer argument is <<>> (None) or <<n>>.                   *)
(* Sequences are 1-based; Python indices (callback indices, chunk-local    *)
(* j) are kept 0-based and converted where a sequence is indexed.          *)
(***************************************************************************)
EXTENDS Integers, Sequences, FiniteSets, TLC

\* ------------------------------------------------------------------ bounds
MaxItems == 3
MaxThreads == 2

\* ------------------------------------------------------------------ values
None == <<>>
Some(n) == <<n>>

Exc(c) == [kind |-> "exc", call |-> c, tag |-> 0, elems |-> <<>>]
Val(c, t) == [kind |-> "val", call |-> c, tag |-> t, elems |-> <<>>]
NoneVal == [kind |-> "none", call |-> 0, tag |-> 0, elems |-> <<>>]
PyList(s) == [kind |-> "list", call |-> 0, tag |-> 0, elems |-> s]
PyDict(s) == [kind |-> "dict", call |-> 0, tag |-> 0, elems |-> s]

Max(a, b) == IF a >= b THEN a ELSE b
Min(a, b) == IF a <= b THEN a ELSE b

\* truth value of an optional integer: None and 0 are false
Truthy(v) == v # None /\ v[1] # 0
\* Python's `a or b`
PyOr(a, b) == IF Truthy(a) THEN a ELSE b

\* bool(v) of a result value: None and empty containers are false
PyBool(v) == CASE v.kind = "none" -> FALSE
               [] v.kind \in {"list", "dict"} -> v.elems # <<>>
               [] OTHER -> TRUE

IsException(v) == v.kind = "exc"

OpNames == {"submit", "cancel", "cleanup", "query"}

\* ------------------------------------------------------------------ helpers of law.util
\* make_list(obj): a list is returned as a (copied) list
make_list(l) == l

\* iter_chunks(l, size), size >= 1: contiguous slices of up to `size` items, in order
RECURSIVE iter_chunks(_, _)
iter_chunks(l, size) ==
    IF l = <<>> THEN <<>>
    ELSE <<SubSeq(l, 1, Min(size, Len(l)))>> \o iter_chunks(SubSeq(l, size + 1, Len(l)), size)

\* the values of a dict, in insertion order
RECURSIVE DictValues(_)
DictValues(items) ==
    IF items = <<>> THEN <<>> ELSE <<Head(items)[2]>> \o DictValues(Tail(items))

\* flatten(struct): lists and dict values are flattened recursively, anything else is kept
RECURSIVE flatten(_)
flatten(s) ==
    IF s = <<>> THEN <<>>
    ELSE LET h == Head(s)
         IN  (CASE h.kind = "list" -> flatten(h.elems)
                [] h.kind = "dict" -> flatten(DictValues(h.elems))
                [] OTHER -> <<h>>) \o flatten(Tail(s))

\* filter(bool, l)
RECURSIVE FilterBool(_)
FilterBool(l) ==
    IF l = <<>> THEN <<>>
    ELSE (IF PyBool(Head(l)) THEN <<Head(l)>> ELSE <<>>) \o FilterBool(Tail(l))

\* n * [v]
RECURSIVE Repeat(_, _)
Repeat(n, v) == IF n <= 0 THEN <<>> ELSE <<v>> \o Repeat(n - 1, v)

\* dict item access and update, a dict being its items in insertion order
DictHas(items, k) == \E n \in 1..Len(items) : items[n][1] = k
DictGet(items, k) == items[CHOOSE n \in 1..Len(items) : items[n][1] = k][2]
DictSet(items, k, v) ==
    IF DictHas(items, k)
    THEN [n \in 1..Len(items) |-> IF items[n][1] = k THEN <<k, v>> ELSE items[n]]
    ELSE Append(items, <<k, v>>)
RECURSIVE DictUpdate(_, _)
DictUpdate(items, other) ==
    IF other = <<>> THEN items
    ELSE DictUpdate(DictSet(items, Head(other)[1], Head(other)[2]), Tail(other))

\* v[j] for a Python index or key j: [ok, value]; not ok is IndexError / KeyError
GetItem(v, j) ==
    CASE v.kind = "list" ->
            IF j + 1 \in 1..Len(v.elems) THEN [ok |-> TRUE, value |-> v.elems[j + 1]]
            ELSE [ok |-> FALSE, value |-> NoneVal]
      [] v.kind = "dict" ->
            IF DictHas(v.elems, j) THEN [ok |-> TRUE, value |-> DictGet(v.elems, j)]
            ELSE [ok |-> FALSE, value |-> NoneVal]
      [] OTHER -> [ok |-> FALSE, value |-> NoneVal]

\* sum(len(chunk) for chunk in chunks[:i]), i a Python index
RECURSIVE SumLen(_, _)
SumLen(chs, i) == IF i <= 0 THEN 0 ELSE Len(chs[i]) + SumLen(chs, i - 1)

\* ------------------------------------------------------------------ batch arguments
\* threads = max(threads or self.threads or 1, 1)
EffThreadsIgnoreArg(threads, self_threads) == Max(PyOr(self_threads, Some(1))[1], 1)
EffThreads(threads, self_threads) ==
    Max(PyOr(PyOr(threads, self_threads), Some(1))[1], 1)

\* if self.chunk_size_<op>: chunk_size = max(chunk_size or self.chunk_size_<op>, 0)
\* else: chunk_size = 0
EffChunkSizeArgFirst(chunk_size, chunk_size_default) ==
    Max(IF chunk_size # None THEN chunk_size[1] ELSE chunk_size_default, 0)
EffChunkSize(chunk_size, chunk_size_default) ==
    IF chunk_size_default # 0
    THEN Max(PyOr(chunk_size, Some(chunk_size_default))[1], 0)
    ELSE 0

\* chunks = list(iter_chunks(items, chunk_size)) if chunking else items
\* (unchunked, unit c is the single item items[c], kept here as <<items[c]>>)
BuildChunksNoTail(l, size) ==
    IF size > 0 THEN iter_chunks(make_list(SubSeq(l, 1, Len(l) - 1)), size)
    ELSE [c \in 1..(Len(l) - 1) |-> <<l[c]>>]
BuildChunks(l, size) ==
    IF size > 0 THEN iter_chunks(make_list(l), size)
    ELSE [c \in 1..Len(l) |-> <<l[c]>>]

\* ------------------------------------------------------------------ atomic operations
\* What atomic call number c returns when it does not raise, given the operation,
\* whether it received a chunk, and the items of its unit.
AtomicReturn(o, chunked, c, unit) ==
    CASE o = "submit" /\ ~chunked -> Val(c, 0)
      [] o = "submit" /\ chunked -> PyList([n \in 1..Len(unit) |-> Val(c, n - 1)])
      [] o = "query" /\ ~chunked -> Val(c, unit[1])
      [] o = "query" /\ chunked -> PyDict([n \in 1..Len(unit) |-> <<unit[n], Val(c, unit[n])>>])
      [] OTHER -> NoneVal

\* ------------------------------------------------------------------ callbacks
\* The loop of a chunked callback wrapper over j = first..n-1:
\*   submit/query:    item = value if isinstance(value, Exception) else value[j]
\*   cancel/cleanup:  item = err
\*   callback(offset + j, item)
\* [calls: the callback invocations made, raised: the wrapper raised]
RECURSIVE WrapperLoop(_, _, _, _, _)
WrapperLoop(o, value, offset, j, n) ==
    IF j >= n THEN [calls |-> <<>>, raised |-> FALSE]
    ELSE LET item == IF o \in {"cancel", "cleanup"} \/ IsException(value)
                     THEN [ok |-> TRUE, value |-> value]
                     ELSE GetItem(value, j)
             rest == WrapperLoop(o, value, offset, j + 1, n)
         IN  IF ~item.ok THEN [calls |-> <<>>, raised |-> TRUE]
             ELSE [calls |-> <<<<offset + j, item.value>>>> \o rest.calls,
                   raised |-> rest.raised]

\* cb_factory(i)(value) for unit c = i + 1
CbWrapper(o, chunked, chs, c, value) ==
    IF chunked
    THEN WrapperLoop(o, value, SumLen(chs, c - 1), 0, Len(chs[c]))
    ELSE [calls |-> <<<<c - 1, value>>>>, raised |-> FALSE]

\* ------------------------------------------------------------------ return values
\* get_async_result_silent(result): the value, or the raised exception as a value
get_async_result_reraise(result) == [raised |-> ~result.success, value |-> result.value]
get_async_result_silent(result) == [raised |-> FALSE, value |-> result.value]

\* submit_batch, chunked: outputs.extend(len(chunk) * [exc] or job_ids) per chunk
RECURSIVE ExtendChunks(_, _, _)
ExtendChunks(chs, res, c) ==
    IF c > Len(chs) THEN <<>>
    ELSE (IF IsException(res[c]) THEN Repeat(Len(chs[c]), res[c]) ELSE res[c].elems)
         \o ExtendChunks(chs, res, c + 1)

SubmitOutputsNoBroadcast(chunked, chs, res) == flatten(res)
SubmitOutputs(chunked, chs, res) ==
    IF chunked THEN ExtendChunks(chs, res, 1) ELSE flatten(res)

\* cancel_batch / cleanup_batch: list(filter(bool, flatten(results)))
CancelErrorsNoFilter(res) == flatten(res)
CancelErrorsDropAll(res) == <<>>
CancelErrorsNewestFirst(res) ==
    LET f == FilterBool(flatten(res)) IN [i \in 1..Len(f) |-> f[Len(f) + 1 - i]]
CancelErrors(res) == FilterBool(flatten(res))

\* {job_id: data for job_id in chunk}
ChunkErrorDict(chunk, data) == [n \in 1..Len(chunk) |-> <<chunk[n], data>>]

\* query_batch, chunked: query_data.update(data) per chunk
RECURSIVE UpdateChunks(_, _, _, _)
UpdateChunks(acc, chs, res, c) ==
    IF c > Len(chs) THEN acc
    ELSE UpdateChunks(
            DictUpdate(acc, IF IsException(res[c]) THEN ChunkErrorDict(chs[c], res[c])
                            ELSE res[c].elems),
            chs, res, c + 1)

\* query_batch, unchunked: query_data[job_id] = result per zip(job_ids, results)
RECURSIVE ZipResults(_, _, _, _)
ZipResults(acc, job_ids, res, n) ==
    IF n > Min(Len(job_ids), Len(res)) THEN acc
    ELSE ZipResults(DictSet(acc, job_ids[n], res[n]), job_ids, res, n + 1)

QueryDataByCompletion(chunked, chs, job_ids, res) ==
    [n \in 1..Len(job_ids) |-> <<job_ids[n], res[Len(res)]>>]
QueryDataFirstOnly(chunked, chs, job_ids, res) ==
    IF chunked
    THEN UpdateChunks(<<>>, [c \in 1..Len(chs) |-> <<chs[c][1]>>], res, 1)
    ELSE ZipResults(<<>>, job_ids, res, 1)
QueryData(chunked, chs, job_ids, res) ==
    IF chunked THEN UpdateChunks(<<>>, chs, res, 1) ELSE ZipResults(<<>>, job_ids, res, 1)

\* ------------------------------------------------------------------ state
VARIABLES
    op,                 \* the batch operation called
    job_items,          \* job_files / job_ids: the caller's list
    threads,            \* the threads argument
    self_threads,       \* self.threads
    chunk_size,         \* the chunk_size argument
    chunk_size_default, \* self.chunk_size_<op>
    has_callback,       \* callable(callback)
    phase,              \* "called", "pooled", "joined", "returned", "raised"
    chunking,           \* chunk_size > 0
    chunks,             \* the units of work
    pool_size,          \* ThreadPool(threads)
    task_state,         \* per unit: "queued", "running", "finished", "handled", "stuck"
    task_result,        \* per unit: "none", "ok" (returned), "exc" (raised)
    outqueue,           \* finished units whose result the pool has not yet set
    cb_log,             \* the invocations of callback, <<index, value>>, in order
    invoked,            \* per unit: how many times the atomic operation was called with it
    ret                 \* the value returned by the batch call

args == <<op, job_items, threads, self_threads, chunk_size, chunk_size_default, has_callback>>
batchVars == <<op, job_items, threads, self_threads, chunk_size, chunk_size_default,
               has_callback, phase, chunking, chunks, pool_size, task_state, task_result,
               outqueue, cb_log, invoked, ret>>

\* BaseJobManager.status_line
VARIABLES
    last_counts,        \* self.last_counts
    sl_call,            \* the arguments of the latest status_line call
    sl_result,          \* what the latest status_line call did: its line or its error
    sl_before,          \* the counts of the last call that returned before the latest call
    sl_reported         \* the counts of the last call that returned

statusVars == <<last_counts, sl_call, sl_result, sl_before, sl_reported>>

\* BaseJobFileFactory.provide_input, called by several threads on one factory
VARIABLES
    file_locks,         \* self.file_locks: destination path -> lock, 0 where there is no entry
    locks_made,         \* the number of Lock objects created so far
    lock_owner,         \* lock -> the caller holding it, 0 when it is free
    fs,                 \* the file system: destination path -> "absent", "partial", "complete"
    source,             \* what reading the source file does: "ok", "missing", "undecodable"
    callers,            \* caller -> its arguments, its position in provide_input, its outcome
    writes,             \* destination path -> the number of copies / renders that wrote it
    attempts,           \* destination path -> the number of copy2 / render_file calls made
    fs_before           \* the file system before the first call

stagerVars == <<file_locks, locks_made, lock_owner, fs, source, callers, writes, attempts,
                fs_before>>

\* BaseJobFileFactory.linearize_render_variables
VARIABLES
    render_variables,   \* the argument: key -> value
    lin_order,          \* the keys that render_variables.items() has yet to yield
    lin_key,            \* key of the for loop
    lin_value,          \* value of the for loop, rewritten by the while loop
    linearized,         \* the dictionary being built and returned
    lin_pc              \* "next": at the for statement, "loop": at the search of the while
                        \* loop, "replace": at its substitution, "done": returned,
                        \* "raised": an exception left the method

linVars == <<render_variables, lin_order, lin_key, lin_value, linearized, lin_pc>>

\* BaseJobFileFactory.render_file
VARIABLES
    rf_source,          \* the source file: "missing", "undecodable" or "text"
    rf_content,         \* the content of a source file that is text
    rf_order,           \* the keys of render_variables in the order of iteration
    rf_variables,       \* the argument render_variables: key -> value
    rf_postfix,         \* whether the argument postfix is set
    rf_silent,          \* the argument silent
    rf_dst,             \* the destination file: whether it exists, and its content
    rf_dst_before,      \* the destination file before the call
    rf_outcome          \* "none" before the call, then "returned" or "raised"

renderVars == <<rf_source, rf_content, rf_order, rf_variables, rf_postfix, rf_silent, rf_dst,
                rf_dst_before, rf_outcome>>

\* the directory of a BaseJobFileFactory: __init__, cleanup_dir, __del__
VARIABLES
    fd_args,            \* the constructor arguments dir, mkdtemp, cleanup
    fd_cfg,             \* the config values job_file_dir_mkdtemp and job_file_dir_cleanup
    fd_pc,              \* "new": before __init__, "alive", "deleted": after __del__
    fd_self,            \* self.dir and self.cleanup
    fd_tmp,             \* whether self.dir was created by tempfile.mkdtemp
    fd_exists,          \* the directories that exist
    fd_exists_before,   \* the directories that existed before the latest call
    fd_forced,          \* whether cleanup_dir was called with force=True
    fd_last             \* the latest call and whether it raised

dirVars == <<fd_args, fd_cfg, fd_pc, fd_self, fd_tmp, fd_exists, fd_exists_before, fd_forced,
             fd_last>>

\* BaseJobFileFactory.get_config, and the callers that change what it returned
VARIABLES
    gc_heap,            \* the mutable objects (dicts, lists): object -> its values in order
    gc_self,            \* the instance attributes named in config_attrs: attribute -> value
    gc_kwargs,          \* the argument kwargs: attribute -> value
    gc_cfgs,            \* the configurations returned so far
    gc_orig,            \* the content of gc_self and gc_kwargs before the first call
    gc_returned,        \* the content of each returned configuration when it was returned
    gc_mutations        \* the number of changes made to returned configurations

configVars == <<gc_heap, gc_self, gc_kwargs, gc_cfgs, gc_orig, gc_returned, gc_mutations>>

\* JobArguments
VARIABLES
    ja_task_params,     \* self.task_params: a string, as a sequence of character codes
    ja_branches,        \* self.branches: a list of values
    ja_auto_retry,      \* self.auto_retry
    ja_dashboard_data,  \* self.dashboard_data: a list of values
    ja_args,            \* what the latest get_args call returned, <<>> before it
    ja_joined           \* what the latest join call returned, <<>> before it

argVars == <<ja_task_params, ja_branches, ja_auto_retry, ja_dashboard_data, ja_args, ja_joined>>

\* JobInputFile.__init__
VARIABLES
    jf_in,              \* the arguments copy, share, forward, postfix, render, render_local,
                        \* render_job: each None, <<FALSE>> or <<TRUE>>
    jf_path,            \* the argument path: None for a string, else the flags of the
                        \* JobInputFile passed as path
    jf_pc,              \* "new" before the constructor ran, "done" after, "raised"
    jf_flags,           \* the attributes copy, share, forward, postfix, render_local, render_job
    jf_warnings         \* the warnings logged by the constructor

inputVars == <<jf_in, jf_path, jf_pc, jf_flags, jf_warnings>>

\* BaseJobFileFactory.postfix_file
VARIABLES
    pf_path,            \* the argument path, a sequence of characters
    pf_postfix,         \* the argument postfix: None, a string or a dictionary
    pf_add_hash,        \* the argument add_hash
    pf_cwd,             \* the working directory of the process
    pf_pc,              \* "new": not called, "once": called, "again": called a second time
    pf_first,           \* what the first call returned
    pf_result           \* what the latest call returned

postfixVars == <<pf_path, pf_postfix, pf_add_hash, pf_cwd, pf_pc, pf_first, pf_result>>

vars == <<batchVars, statusVars, stagerVars, linVars, renderVars, dirVars, configVars, argVars, inputVars, postfixVars>>
nonBatchVars == <<statusVars, stagerVars, linVars, renderVars, dirVars, configVars, argVars, inputVars, postfixVars>>
nonStatusVars == <<batchVars, stagerVars, linVars, renderVars, dirVars, configVars, argVars, inputVars, postfixVars>>
nonStagerVars == <<batchVars, statusVars, linVars, renderVars, dirVars, configVars, argVars, inputVars, postfixVars>>
nonLinVars == <<batchVars, statusVars, stagerVars, renderVars, dirVars, configVars, argVars, inputVars, postfixVars>>
nonRenderVars == <<batchVars, statusVars, stagerVars, linVars, dirVars, configVars, argVars, inputVars, postfixVars>>
nonDirVars == <<batchVars, statusVars, stagerVars, linVars, renderVars, configVars, argVars, inputVars, postfixVars>>
nonConfigVars == <<batchVars, statusVars, stagerVars, linVars, renderVars, dirVars, argVars, inputVars, postfixVars>>
nonArgVars == <<batchVars, statusVars, stagerVars, linVars, renderVars, dirVars, configVars, inputVars, postfixVars>>
nonInputVars == <<batchVars, statusVars, stagerVars, linVars, renderVars, dirVars, configVars, argVars, postfixVars>>
nonPostfixVars == <<batchVars, statusVars, stagerVars, linVars, renderVars, dirVars, configVars, argVars, inputVars>>

Units == 1..Len(chunks)
Running == {c \in Units : task_state[c] = "running"}

\* the AsyncResult of unit c
AsyncResult(c) ==
    [success |-> task_result[c] = "ok",
     value |-> CASE task_result[c] = "ok" -> AtomicReturn(op, chunking, c, chunks[c])
                 [] task_result[c] = "exc" -> Exc(c)
                 [] OTHER -> NoneVal]

\* the lists the caller may pass: 0..MaxItems distinct job files / job ids (opaque
\* values 101, 102, ..., none of them an index), in ascending or descending order
ItemLists ==
    {[n \in 1..len |-> 100 + n] : len \in 0..MaxItems}
    \cup {[n \in 1..len |-> 101 + len - n] : len \in 2..MaxItems}

ThreadArgs == {None, Some(0), Some(-1)} \cup {Some(k) : k \in 1..MaxThreads}
SelfThreads == {Some(0), Some(MaxThreads)}
ChunkArgs == {None} \cup {Some(k) : k \in -1..(MaxItems + 1)}
ChunkDefaults == {0, 2}

\* the manager before any status_line call: self.last_counts = [0] * len(self.status_names)
StatusNames == <<"pending", "running", "finished", "retry", "failed">>
Zeros(n) == [i \in 1..n |-> 0]
NoPrior == [kind |-> "none", val |-> <<>>]
NoCall == [counts |-> <<>>, last_counts |-> NoPrior, sum_counts |-> None, timestamp |-> FALSE]
NoResult == [outcome |-> "none", timestamp |-> FALSE, sum |-> 0, entries |-> <<>>]
StatusInit ==
    /\ last_counts = Zeros(Len(StatusNames))
    /\ sl_call = NoCall
    /\ sl_result = NoResult
    /\ sl_before = Zeros(Len(StatusNames))
    /\ sl_reported = Zeros(Len(StatusNames))

\* a factory on which provide_input is not called
MaxCallers == 2
Dsts == {"d1", "d2"}
Locks == 1..MaxCallers
NoCallers == [t \in 1..MaxCallers |->
                 [dst |-> "d1", skip |-> FALSE, render |-> FALSE, pc |-> "done", lock |-> 0,
                  saw |-> "none", copies |-> 0, result |-> "none"]]
StagerIdle ==
    /\ file_locks = [d \in Dsts |-> 0]
    /\ locks_made = 0
    /\ lock_owner = [l \in Locks |-> 0]
    /\ fs = [d \in Dsts |-> "absent"]
    /\ source = "ok"
    /\ callers = NoCallers
    /\ writes = [d \in Dsts |-> 0]
    /\ attempts = [d \in Dsts |-> 0]
    /\ fs_before = fs

\* no linearize_render_variables call
EmptyDict == [k \in {} |-> <<>>]
LinIdle ==
    /\ render_variables = EmptyDict
    /\ lin_order = <<>>
    /\ lin_key = ""
    /\ lin_value = <<>>
    /\ linearized = EmptyDict
    /\ lin_pc = "done"

\* no render_file call
NoFile == [exists |-> FALSE, content |-> <<>>]
RenderIdle ==
    /\ rf_source = "text"
    /\ rf_content = <<>>
    /\ rf_order = <<>>
    /\ rf_variables = EmptyDict
    /\ rf_postfix = FALSE
    /\ rf_silent = TRUE
    /\ rf_dst = NoFile
    /\ rf_dst_before = NoFile
    /\ rf_outcome = "returned"

\* no factory is constructed
NoDirCall == [op |-> "none", force |-> FALSE, raised |-> FALSE]
DirIdle ==
    /\ fd_args = [dir |-> None, mkdtemp |-> None, cleanup |-> None]
    /\ fd_cfg = [mkdtemp |-> TRUE, cleanup |-> TRUE]
    /\ fd_pc = "deleted"
    /\ fd_self = [dir |-> "", cleanup |-> FALSE]
    /\ fd_tmp = FALSE
    /\ fd_exists = {}
    /\ fd_exists_before = {}
    /\ fd_forced = FALSE
    /\ fd_last = NoDirCall

\* no get_config call
ConfigIdle ==
    /\ gc_heap = <<>>
    /\ gc_self = EmptyDict
    /\ gc_kwargs = EmptyDict
    /\ gc_cfgs = <<>>
    /\ gc_orig = [self |-> EmptyDict, kwargs |-> EmptyDict]
    /\ gc_returned = <<>>
    /\ gc_mutations = 0

\* no JobArguments object
ArgsIdle ==
    /\ ja_task_params = <<>>
    /\ ja_branches = <<>>
    /\ ja_auto_retry = FALSE
    /\ ja_dashboard_data = <<>>
    /\ ja_args = <<>>
    /\ ja_joined = <<>>

\* no JobInputFile is constructed
FlagNames == {"copy", "share", "forward", "postfix", "render_local", "render_job"}
AllUnset == [n \in FlagNames \cup {"render"} |-> None]
NoFlags == [n \in FlagNames |-> FALSE]
InputIdle ==
    /\ jf_in = AllUnset
    /\ jf_path = None
    /\ jf_pc = "done"
    /\ jf_flags = NoFlags
    /\ jf_warnings = {}

\* no postfix_file call
NoPostfix == [kind |-> "none", str |-> <<>>, items |-> <<>>]
PostfixIdle ==
    /\ pf_path = <<>>
    /\ pf_postfix = NoPostfix
    /\ pf_add_hash = FALSE
    /\ pf_cwd = <<>>
    /\ pf_pc = "again"
    /\ pf_first = <<>>
    /\ pf_result = <<>>

Init ==
    /\ PostfixIdle
    /\ InputIdle
    /\ ArgsIdle
    /\ ConfigIdle
    /\ DirIdle
    /\ RenderIdle
    /\ StatusInit
    /\ StagerIdle
    /\ LinIdle
    /\ op \in OpNames
    /\ job_items \in ItemLists
    /\ threads \in ThreadArgs
    /\ self_threads \in SelfThreads
    /\ chunk_size \in ChunkArgs
    /\ chunk_size_default \in ChunkDefaults
    /\ has_callback \in BOOLEAN
    /\ phase = "called"
    /\ chunking = FALSE
    /\ chunks = <<>>
    /\ pool_size = 0
    /\ task_state = <<>>
    /\ task_result = <<>>
    /\ outqueue = <<>>
    /\ cb_log = <<>>
    /\ invoked = <<>>
    /\ ret = <<>>

\* the head of a batch method: default arguments, chunks, pool, apply_async per unit
Dispatch ==
    /\ phase = "called"
    /\ LET size == EffChunkSize(chunk_size, chunk_size_default)
           chs == BuildChunks(job_items, size)
       IN  /\ chunking' = (size > 0)
           /\ chunks' = chs
           /\ task_state' = [c \in 1..Len(chs) |-> "queued"]
           /\ task_result' = [c \in 1..Len(chs) |-> "none"]
           /\ invoked' = [c \in 1..Len(chs) |-> 0]
    /\ pool_size' = EffThreads(threads, self_threads)
    /\ phase' = "pooled"
    /\ UNCHANGED <<nonBatchVars, args, outqueue, cb_log, ret>>

\* an idle pool worker takes the next task of the queue and calls the atomic operation
WorkerStart ==
    /\ phase = "pooled"
    /\ Cardinality(Running) < pool_size
    /\ \E c \in Units :
        /\ task_state[c] = "queued"
        /\ \A d \in 1..(c - 1) : task_state[d] # "queued"
        /\ task_state' = [task_state EXCEPT ![c] = "running"]
        /\ invoked' = [invoked EXCEPT ![c] = @ + 1]
    /\ UNCHANGED <<nonBatchVars, args, phase, chunking, chunks, pool_size, task_result, outqueue, cb_log, ret>>

\* the atomic operation of unit c returns
WorkerReturn(c) ==
    /\ phase = "pooled"
    /\ task_state[c] = "running"
    /\ task_state' = [task_state EXCEPT ![c] = "finished"]
    /\ task_result' = [task_result EXCEPT ![c] = "ok"]
    /\ outqueue' = Append(outqueue, c)
    /\ UNCHANGED <<nonBatchVars, args, invoked, phase, chunking, chunks, pool_size, cb_log, ret>>

\* the atomic operation of unit c raises
WorkerRaise(c) ==
    /\ phase = "pooled"
    /\ task_state[c] = "running"
    /\ task_state' = [task_state EXCEPT ![c] = "finished"]
    /\ task_result' = [task_result EXCEPT ![c] = "exc"]
    /\ outqueue' = Append(outqueue, c)
    /\ UNCHANGED <<nonBatchVars, args, invoked, phase, chunking, chunks, pool_size, cb_log, ret>>

\* the pool's result handler sets the next result: the callback passed to apply_async
\* runs if the call succeeded, then the result becomes ready; a callback wrapper that
\* raises leaves the result unset for ever
HandleResult ==
    /\ phase = "pooled"
    /\ outqueue # <<>>
    /\ LET c == Head(outqueue)
           r == AsyncResult(c)
           w == CbWrapper(op, chunking, chunks, c, r.value)
       IN  IF has_callback /\ r.success
           THEN /\ cb_log' = cb_log \o w.calls
                /\ task_state' = [task_state EXCEPT ![c] = IF w.raised THEN "stuck" ELSE "handled"]
           ELSE /\ cb_log' = cb_log
                /\ task_state' = [task_state EXCEPT ![c] = "handled"]
    /\ outqueue' = Tail(outqueue)
    /\ UNCHANGED <<nonBatchVars, args, invoked, phase, chunking, chunks, pool_size, task_result, ret>>

\* pool.close(); pool.join() returns once every result is set and the workers are gone
PoolJoinedNoWait == TRUE
PoolJoined == \A c \in Units : task_state[c] = "handled"

Join ==
    /\ phase = "pooled"
    /\ PoolJoined
    /\ phase' = "joined"
    /\ UNCHANGED <<nonBatchVars, args, invoked, chunking, chunks, pool_size, task_state, task_result, outqueue, cb_log, ret>>

\* result.get() blocks until the result is set
ResultReady(c) == task_state[c] = "handled"

\* the tail of a batch method: fetch every result and build the return value
Return ==
    /\ phase = "joined"
    /\ \A c \in Units : ResultReady(c)
    /\ LET got == [c \in Units |-> get_async_result_silent(AsyncResult(c))]
           res == [c \in Units |-> got[c].value]
       IN  IF \E c \in Units : got[c].raised
           THEN /\ phase' = "raised"
                /\ ret' = <<>>
           ELSE /\ phase' = "returned"
                /\ ret' = CASE op = "submit" -> SubmitOutputs(chunking, chunks, res)
                            [] op = "query" -> QueryData(chunking, chunks, job_items, res)
                            [] OTHER -> CancelErrors(res)
    /\ UNCHANGED <<nonBatchVars, args, invoked, chunking, chunks, pool_size, task_state, task_result, outqueue, cb_log>>

Next ==
    \/ Dispatch
    \/ WorkerStart
    \/ \E c \in Units : WorkerReturn(c)
    \/ \E c \in Units : WorkerRaise(c)
    \/ HandleResult
    \/ Join
    \/ Return

Spec == Init /\ [][Next]_vars

\* ------------------------------------------------- BaseJobManager.status_line
MaxJobs == 2

\* the last_counts argument: None (or another falsy non-list), True, or a list / tuple
PriorTrue == [kind |-> "true", val |-> <<>>]
PriorList(v) == [kind |-> "list", val |-> v]
\* bool(last_counts)
UseLastCounts(lc) == lc.kind = "true" \/ (lc.kind = "list" /\ Len(lc.val) > 0)

\* self.last_counts or ([0] * len(self.status_names))
ImplicitPriorZero(self_last, n) == Zeros(n)
ImplicitPrior(self_last, n) == IF Len(self_last) > 0 THEN self_last ELSE Zeros(n)

\* last_counts after the first two statements of status_line; <<>> stands for a falsy value
EffectiveLast(self_last, lc, n) ==
    IF UseLastCounts(lc) /\ lc.kind # "list" THEN ImplicitPrior(self_last, n)
    ELSE IF lc.kind = "list" THEN lc.val
    ELSE <<>>

\* the two length checks
LastLengthOk(last, n) == ~(Len(last) > 0 /\ Len(last) # n)
CountsLengthAny(counts, n) == TRUE
CountsLengthOk(counts, n) == Len(counts) = n

\* tuple(n - m for n, m in zip(counts, last_counts))
Diffs(counts, last) == [i \in 1..Min(Len(counts), Len(last)) |-> counts[i] - last[i]]

\* "%d" and "%+d" for align = 0: a count is written as it is, a difference with its sign
Abs(d) == IF d < 0 THEN 0 - d ELSE d
FmtDiff(d) == <<IF d < 0 THEN "-" ELSE "+", Abs(d)>>
NoDiff == <<>>

RECURSIVE SumSeq(_)
SumSeq(s) == IF Len(s) = 0 THEN 0 ELSE Head(s) + SumSeq(Tail(s))

\* the value stored by self.last_counts = list(counts)
StoredCountsPrior(counts, last) == last
StoredCounts(counts, last) == counts

\* status_line(counts, last_counts, sum_counts, timestamp) with align and color left at False:
\* the outcome of the call and the value of self.last_counts after it
status_line(self_last, counts, lc, sum_counts, timestamp) ==
    LET n == Len(StatusNames)
        last == EffectiveLast(self_last, lc, n)
        bound == Len(last) > 0
        diffs == Diffs(counts, last)
        rows == Min(n, Len(counts))
        raised(o) == [result |-> [outcome |-> o, timestamp |-> FALSE, sum |-> 0,
                                  entries |-> <<>>],
                      last_counts |-> self_last]
    IN  IF ~LastLengthOk(last, n) THEN raised("raise_last_length")
        ELSE IF ~CountsLengthOk(counts, n) THEN raised("raise_counts_length")
        ELSE IF rows > 0 /\ ~bound THEN raised("raise_unbound_diffs")
        ELSE [result |->
                 [outcome |-> "line",
                  timestamp |-> timestamp,
                  sum |-> IF sum_counts = None THEN SumSeq(counts) ELSE sum_counts[1],
                  entries |-> [i \in 1..rows |->
                                  [status |-> StatusNames[i],
                                   count |-> counts[i],
                                   diff |-> IF Len(diffs) > 0 THEN FmtDiff(diffs[i])
                                            ELSE NoDiff]]],
              last_counts |-> StoredCounts(counts, last)]

\* the calls made: count vectors of the right length (up to MaxJobs jobs, none of them
\* retried or failed), of a wrong length, priors of each sort, and two settings of the
\* formatting arguments
GoodCounts == {<<t[1], t[2], t[3], 0, 0>> :
                  t \in {u \in (0..MaxJobs) \X (0..MaxJobs) \X (0..MaxJobs) :
                            u[1] + u[2] + u[3] <= MaxJobs}}
BadCounts == {Zeros(0), Zeros(Len(StatusNames) - 1), Zeros(Len(StatusNames) + 1)}
CountArgs == GoodCounts \cup BadCounts
PriorArgs == {NoPrior, PriorTrue}
             \cup {PriorList(v) : v \in BadCounts}
             \cup {PriorList(Zeros(Len(StatusNames))),
                   PriorList([i \in 1..Len(StatusNames) |-> IF i = Len(StatusNames)
                                                             THEN MaxJobs ELSE 0])}
FormatArgs == {[sum_counts |-> None, timestamp |-> FALSE],
               [sum_counts |-> Some(MaxJobs + 1), timestamp |-> TRUE]}

StatusLineCall ==
    /\ \E counts \in CountArgs, lc \in PriorArgs, f \in FormatArgs :
          LET r == status_line(last_counts, counts, lc, f.sum_counts, f.timestamp)
          IN  /\ sl_call' = [counts |-> counts, last_counts |-> lc,
                             sum_counts |-> f.sum_counts, timestamp |-> f.timestamp]
              /\ sl_result' = r.result
              /\ last_counts' = r.last_counts
              /\ sl_before' = sl_reported
              /\ sl_reported' = IF r.result.outcome = "line" THEN counts ELSE sl_reported
    /\ UNCHANGED nonStatusVars

\* a manager that only formats status lines: no batch operation is in progress
BatchIdle ==
    /\ op = "submit"
    /\ job_items = <<>>
    /\ threads = None
    /\ self_threads = Some(MaxThreads)
    /\ chunk_size = None
    /\ chunk_size_default = 0
    /\ has_callback = FALSE
    /\ phase = "called"
    /\ chunking = FALSE
    /\ chunks = <<>>
    /\ pool_size = 0
    /\ task_state = <<>>
    /\ task_result = <<>>
    /\ outqueue = <<>>
    /\ cb_log = <<>>
    /\ invoked = <<>>
    /\ ret = None

InitStatus == StatusInit /\ BatchIdle /\ StagerIdle /\ LinIdle /\ RenderIdle /\ DirIdle /\ ConfigIdle /\ ArgsIdle /\ InputIdle /\ PostfixIdle
NextStatus == StatusLineCall
SpecStatus == InitStatus /\ [][NextStatus]_vars

\* ------------------------------------------- BaseJobFileFactory.provide_input
\* self.file_locks[dst] on a defaultdict(Lock): the entry of the path, created by the same
\* lookup when the path has none (one step: the lookup, the call of Lock and the store all
\* run inside the interpreter's C code, which does not switch threads)
LockForAlwaysNew(locks, made, d) == made + 1
LockFor(locks, made, d) == IF locks[d] # 0 THEN locks[d] ELSE made + 1

\* not skip_existing or not os.path.exists(dst)
NeedsCopyAlways(skip, exists) == TRUE
NeedsCopy(skip, exists) == ~skip \/ ~exists

\* Lock.acquire() goes through only while no caller holds the lock
LockFreeAlways(l) == TRUE
LockFree(l) == lock_owner[l] = 0

\* the start of render_file(src, dst, ..., silent): a source that is no file raises; a
\* source whose content cannot be decoded makes the method return when silent is set and
\* raises otherwise; else the content is read
ReadSource(kind, silent) ==
    IF kind = "missing" THEN "raise"
    ELSE IF kind = "undecodable" THEN (IF silent THEN "skip" ELSE "raise")
    ELSE "read"
\* shutil.copy2(src, dst) raises for a missing source and copies any other
CopySource(kind) == IF kind = "missing" THEN "raise" ELSE "read"
\* provide_input: render_file with its default silent=True when render_variables is set,
\* else shutil.copy2
StageOutcome(kind, render) == IF render THEN ReadSource(kind, TRUE) ELSE CopySource(kind)

\* opening dst for writing raises once the staging directory has been removed
OpenDst(outcome, state) == IF outcome = "read" /\ state = "gone" THEN "raise" ELSE outcome

Exists(d) == fs[d] \notin {"absent", "gone"}
Callers == 1..MaxCallers
At(t, pc) == callers[t].pc = pc
Move(t, pc) == [callers EXCEPT ![t].pc = pc]

\* context = self.file_locks[dst] if skip_existing else empty_context()
LookupLock(t) ==
    /\ At(t, "lookup")
    /\ LET d == callers[t].dst
           l == LockFor(file_locks, locks_made, d)
       IN  IF callers[t].skip
           THEN /\ l \in Locks
                /\ callers' = [callers EXCEPT ![t].pc = "enter", ![t].lock = l]
                /\ file_locks' = [file_locks EXCEPT ![d] = l]
                /\ locks_made' = IF l > locks_made THEN l ELSE locks_made
           ELSE /\ callers' = Move(t, "enter")
                /\ UNCHANGED <<file_locks, locks_made>>
    /\ UNCHANGED <<nonStagerVars, lock_owner, fs, source, writes, attempts, fs_before>>

\* with context: entering acquires the lock, and waits while another caller holds it
EnterContext(t) ==
    /\ At(t, "enter")
    /\ LET l == callers[t].lock
       IN  IF l = 0
           THEN UNCHANGED lock_owner
           ELSE /\ LockFree(l)
                /\ lock_owner' = [lock_owner EXCEPT ![l] = t]
    /\ callers' = Move(t, "check")
    /\ UNCHANGED <<nonStagerVars, file_locks, locks_made, fs, source, writes, attempts,
                   fs_before>>

\* if not skip_existing or not os.path.exists(dst)
CheckExisting(t) ==
    /\ At(t, "check")
    /\ LET c == callers[t]
       IN  callers' = [callers EXCEPT
                          ![t].saw = IF Exists(c.dst) THEN "present" ELSE "absent",
                          ![t].pc = IF NeedsCopy(c.skip, Exists(c.dst)) THEN "copy"
                                    ELSE "exit"]
    /\ UNCHANGED <<nonStagerVars, file_locks, locks_made, lock_owner, fs, source, writes,
                   attempts, fs_before>>

\* render_file(src, dst, ...) or shutil.copy2(src, dst), up to the opening of dst: a missing
\* source raises, a source that render_file cannot decode makes it return without writing
CopyBegin(t) ==
    /\ At(t, "copy")
    /\ LET c == callers[t]
       IN  /\ attempts' = [attempts EXCEPT ![c.dst] = @ + 1]
           /\ IF OpenDst(StageOutcome(source, c.render), fs[c.dst]) = "raise"
              THEN /\ callers' = [callers EXCEPT ![t].pc = "exit", ![t].result = "raising",
                                                 ![t].copies = @ + 1]
                   /\ UNCHANGED fs
              ELSE IF StageOutcome(source, c.render) = "skip"
              THEN /\ callers' = [callers EXCEPT ![t].pc = "exit", ![t].copies = @ + 1]
                   /\ UNCHANGED fs
              ELSE /\ callers' = [callers EXCEPT ![t].pc = "writing", ![t].copies = @ + 1]
                   /\ fs' = [fs EXCEPT ![c.dst] = "partial"]
    /\ UNCHANGED <<nonStagerVars, file_locks, locks_made, lock_owner, source, writes,
                   fs_before>>

\* the content is written and dst is closed; when the staging directory was removed in the
\* meantime the file stays removed, render_file returns and copy2 raises in its copystat
CopyEnd(t) ==
    /\ At(t, "writing")
    /\ LET d == callers[t].dst
       IN  IF fs[d] = "gone"
           THEN /\ UNCHANGED <<fs, writes>>
                /\ callers' = [callers EXCEPT
                                  ![t].pc = "exit",
                                  ![t].result = IF callers[t].render THEN @ ELSE "raising"]
           ELSE /\ fs' = [fs EXCEPT ![d] = "complete"]
                /\ writes' = [writes EXCEPT ![d] = @ + 1]
                /\ callers' = Move(t, "exit")
    /\ UNCHANGED <<nonStagerVars, file_locks, locks_made, lock_owner, source, attempts,
                   fs_before>>

ExitContextKeepsLock(t) ==
    /\ At(t, "exit")
    /\ LET l == callers[t].lock
       IN  IF l = 0 \/ callers[t].result = "raising"
           THEN UNCHANGED lock_owner
           ELSE lock_owner' = [lock_owner EXCEPT ![l] = 0]
    /\ callers' = [callers EXCEPT
                      ![t].pc = "done",
                      ![t].result = IF @ = "raising" THEN "raised" ELSE "returned"]
    /\ UNCHANGED <<nonStagerVars, file_locks, locks_made, fs, source, writes, attempts,
                   fs_before>>
\* leaving the with block releases the lock, on return and on an exception alike; then
\* return dst, or the exception propagates
ExitContext(t) ==
    /\ At(t, "exit")
    /\ LET l == callers[t].lock
       IN  IF l = 0
           THEN UNCHANGED lock_owner
           ELSE lock_owner' = [lock_owner EXCEPT ![l] = 0]
    /\ callers' = [callers EXCEPT
                      ![t].pc = "done",
                      ![t].result = IF @ = "raising" THEN "raised" ELSE "returned"]
    /\ UNCHANGED <<nonStagerVars, file_locks, locks_made, fs, source, writes, attempts,
                   fs_before>>

\* the calls made: each caller with its destination, skip_existing and whether it renders;
\* each destination absent or already staged
CallerArgs == [dst : Dsts, skip : BOOLEAN, render : BOOLEAN]
NewCaller(a) == [dst |-> a.dst, skip |-> a.skip, render |-> a.render, pc |-> "lookup",
                 lock |-> 0, saw |-> "none", copies |-> 0, result |-> "none"]
InitStager ==
    /\ PostfixIdle
    /\ InputIdle
    /\ ArgsIdle
    /\ ConfigIdle
    /\ DirIdle
    /\ RenderIdle
    /\ StatusInit
    /\ BatchIdle
    /\ LinIdle
    /\ file_locks = [d \in Dsts |-> 0]
    /\ locks_made = 0
    /\ lock_owner = [l \in Locks |-> 0]
    /\ fs \in [Dsts -> {"absent", "complete"}]
    /\ source \in {"ok", "missing", "undecodable"}
    /\ callers \in {[t \in Callers |-> NewCaller(f[t])] : f \in [Callers -> CallerArgs]}
    /\ writes = [d \in Dsts |-> 0]
    /\ attempts = [d \in Dsts |-> 0]
    /\ fs_before = fs

NextStager ==
    \E t \in Callers :
        \/ LookupLock(t)
        \/ EnterContext(t)
        \/ CheckExisting(t)
        \/ CopyBegin(t)
        \/ CopyEnd(t)
        \/ ExitContext(t)

SpecStager == InitStager /\ [][NextStager]_vars

\* every thread that called provide_input keeps running: it takes its next step whenever it
\* stays able to
CallerStep(t) ==
    \/ LookupLock(t)
    \/ EnterContext(t)
    \/ CheckExisting(t)
    \/ CopyBegin(t)
    \/ CopyEnd(t)
    \/ ExitContext(t)
\* the calls start with no destination staged yet; the first caller passes skip_existing,
\* so a lock is taken, and its destination is the first one (the destinations are alike)
InitStagerFair ==
    /\ InitStager
    /\ \A d \in Dsts : fs[d] = "absent"
    /\ callers[1].skip
    /\ callers[1].dst = "d1"
SpecStagerFair ==
    InitStagerFair /\ [][NextStager]_vars /\ \A t \in Callers : WF_vars(CallerStep(t))

\* cleanup_dir(force=True) called while provide_input calls run: shutil.rmtree(self.dir)
\* removes the staging directory and every file in it
StagerCleanupDir ==
    /\ \E d \in Dsts : fs[d] # "gone"
    /\ fs' = [d \in Dsts |-> "gone"]
    /\ UNCHANGED <<nonStagerVars, file_locks, locks_made, lock_owner, source, callers, writes,
                   attempts, fs_before>>

\* get_config(): reads dir, render_variables and custom_log_file and changes nothing of the
\* factory
StagerGetConfig ==
    /\ UNCHANGED vars

\* provide_input calls together with the factory's other operations
NextStagerOps ==
    \/ NextStager
    \/ StagerCleanupDir
    \/ StagerGetConfig
\* the source can be read and the destinations are all staged or all absent: the lock map
\* does not depend on what the copy does
InitStagerOps == InitStager /\ source = "ok" /\ \A d, f \in Dsts : fs[d] = fs[f]
SpecStagerOps == InitStagerOps /\ [][NextStagerOps]_vars

\* ---------------------------- BaseJobFileFactory.linearize_render_variables
MaxInitLen == 2
\* the longest value that an acyclic mapping of the two keys can reach
MaxValueLen == MaxInitLen * MaxInitLen

\* a text is a sequence of pieces: the literal piece "x", or a piece "{{name}}" written as
\* the name: the keys "a" and "b", and "u", which is never a key; NotText is a value that
\* is not a string
Names == {"a", "b"}
Pieces == {"x", "u"} \cup Names
NotText == <<"!">>
IsToken(p) == p \in Names \cup {"u"}

\* render_key_cre.search(value): the position of the first {{name}}, 0 when there is none
RECURSIVE FirstToken(_, _)
FirstToken(v, i) ==
    IF i > Len(v) THEN 0
    ELSE IF IsToken(v[i]) THEN i
    ELSE FirstToken(v, i + 1)

\* render_string(s, key, value): s.replace("{{" + key + "}}", value)
RECURSIVE render_string(_, _, _)
render_string(s, key, value) ==
    IF Len(s) = 0 THEN <<>>
    ELSE (IF Head(s) = key THEN value ELSE <<Head(s)>>) \o render_string(Tail(s), key, value)

\* render_variables.get(sub_key, "")
GetOrEmpty(d, k) == IF k \in DOMAIN d THEN d[k] ELSE <<>>

\* the dictionary whose values the while loop substitutes
SubstituteFromLinearized(rv, lin) == lin
SubstituteFrom(rv, lin) == rv

\* base64.b64encode(six.b(json.dumps(linearized))): the keys and values behind a marker
EncodeKey(d, k) == IF k \in DOMAIN d THEN <<"{", k, ":">> \o d[k] \o <<"}">> ELSE <<>>
EncodeVars(d) == <<"b64">> \o EncodeKey(d, "a") \o EncodeKey(d, "b")
DictPut(d, k, v) == [j \in DOMAIN d \cup {k} |-> IF j = k THEN v ELSE d[j]]

\* for key, value in render_variables.items(): the next key, checked to be a string
LinNextKey ==
    /\ lin_pc = "next"
    /\ Len(lin_order) > 0
    /\ LET key == Head(lin_order)
       IN  IF render_variables[key] = NotText
           THEN /\ lin_pc' = "raised"
                /\ UNCHANGED <<lin_key, lin_value, lin_order>>
           ELSE /\ lin_pc' = "loop"
                /\ lin_key' = key
                /\ lin_value' = render_variables[key]
                /\ lin_order' = Tail(lin_order)
    /\ UNCHANGED <<nonLinVars, render_variables, linearized>>

\* m = cls.render_key_cre.search(value) finds a {{name}}: the loop goes on
LinSearch ==
    /\ lin_pc = "loop"
    /\ FirstToken(lin_value, 1) # 0
    /\ lin_pc' = "replace"
    /\ UNCHANGED <<nonLinVars, render_variables, lin_order, lin_key, lin_value, linearized>>

\* value = cls.render_string(value, sub_key, render_variables.get(sub_key, "")): every
\* {{sub_key}} of the value is replaced by the value of that name
LinSubstitute ==
    /\ lin_pc = "replace"
    /\ LET sub_key == lin_value[FirstToken(lin_value, 1)]
           sub == GetOrEmpty(SubstituteFrom(render_variables, linearized), sub_key)
       IN  IF sub = NotText
           THEN /\ lin_pc' = "raised"
                /\ UNCHANGED lin_value
           ELSE /\ Len(render_string(lin_value, sub_key, sub)) <= MaxValueLen
                /\ lin_value' = render_string(lin_value, sub_key, sub)
                /\ lin_pc' = "loop"
    /\ UNCHANGED <<nonLinVars, render_variables, lin_order, lin_key, linearized>>

\* the round of the while loop that finds no {{name}}: break, linearized[key] = value
LinStore ==
    /\ lin_pc = "loop"
    /\ FirstToken(lin_value, 1) = 0
    /\ linearized' = DictPut(linearized, lin_key, lin_value)
    /\ lin_pc' = "next"
    /\ UNCHANGED <<nonLinVars, render_variables, lin_order, lin_key, lin_value>>

\* after the for loop: the encoded variables are added and the dictionary is returned
LinReturn ==
    /\ lin_pc = "next"
    /\ Len(lin_order) = 0
    /\ linearized' = DictPut(linearized, "render_variables", EncodeVars(linearized))
    /\ lin_pc' = "done"
    /\ UNCHANGED <<nonLinVars, render_variables, lin_order, lin_key, lin_value>>

\* the calls made: the keys a and b, either or both, in either order, each with a text of
\* at most MaxInitLen pieces or with a value that is not a string
RECURSIVE TextsUpTo(_)
TextsUpTo(n) ==
    IF n = 0 THEN {<<>>}
    ELSE TextsUpTo(n - 1) \cup {Append(t, p) : t \in {u \in TextsUpTo(n - 1) : Len(u) = n - 1},
                                               p \in Pieces}
ValueArgs == TextsUpTo(MaxInitLen) \cup {NotText}
KeyOrders == {<<>>, <<"a">>, <<"b">>, <<"a", "b">>, <<"b", "a">>}
Range(q) == {q[i] : i \in 1..Len(q)}

InitLinearize ==
    /\ PostfixIdle
    /\ InputIdle
    /\ ArgsIdle
    /\ ConfigIdle
    /\ DirIdle
    /\ RenderIdle
    /\ StatusInit
    /\ BatchIdle
    /\ StagerIdle
    /\ lin_order \in KeyOrders
    /\ render_variables \in [Range(lin_order) -> ValueArgs]
    /\ lin_key = ""
    /\ lin_value = <<>>
    /\ linearized = EmptyDict
    /\ lin_pc = "next"

NextLinearize ==
    \/ LinNextKey
    \/ LinSearch
    \/ LinSubstitute
    \/ LinStore
    \/ LinReturn

\* the method runs in the thread that called it: it takes its next step whenever it has one
SpecLinearize == InitLinearize /\ [][NextLinearize]_vars /\ WF_vars(NextLinearize)

\* --------------------------------------------- BaseJobFileFactory.render_file
\* render_file works on the characters of the file: "{{" and "}}" are written as one
\* character each, the key names "a" and "b" are single word characters, so that
\* <<"{{", "a", "}}">> is the text {{a}}
Token(key) == <<"{{", key, "}}">>
StartsWith(s, p) == Len(s) >= Len(p) /\ SubSeq(s, 1, Len(p)) = p

\* s.replace(old, new) of render_string, character by character from the left
RECURSIVE StrReplace(_, _, _)
StrReplace(s, old, new) ==
    IF Len(s) = 0 THEN <<>>
    ELSE IF StartsWith(s, old)
         THEN new \o StrReplace(SubSeq(s, Len(old) + 1, Len(s)), old, new)
         ELSE <<Head(s)>> \o StrReplace(Tail(s), old, new)

\* a value may hold "__law_job_postfix__:f", written "pf:f"; "f_hash_1" is
\* postfix_input_file("f", postfix)
PostfixMark == "pf:f"
Postfixed == "f_hash_1"
\* re.sub(r"\_\_law\_job\_postfix\_\_:([^\s]+)", postfix_fn, value)
RECURSIVE PostfixValue(_)
PostfixValue(v) ==
    IF Len(v) = 0 THEN <<>>
    ELSE <<IF Head(v) = PostfixMark THEN Postfixed ELSE Head(v)>> \o PostfixValue(Tail(v))

\* the loop over render_variables: each key's {{key}} is replaced by its value
RECURSIVE RenderAll(_, _, _, _)
RenderAll(content, order, rv, postfix) ==
    IF Len(order) = 0 THEN content
    ELSE LET key == Head(order)
             value == IF postfix THEN PostfixValue(rv[key]) ELSE rv[key]
         IN  RenderAll(StrReplace(content, Token(key), value), Tail(order), rv, postfix)

\* render_key_cre = \{\{(\w+)\}\} matched at the start of s: the length of the match, 0
\* when there is none
RECURSIVE WordRun(_)
WordRun(s) == IF Len(s) = 0 \/ Head(s) \notin Names THEN 0 ELSE 1 + WordRun(Tail(s))
MatchLen(s) ==
    IF Len(s) = 0 \/ Head(s) # "{{" THEN 0
    ELSE LET w == WordRun(Tail(s))
         IN  IF w > 0 /\ Len(s) >= w + 2 /\ s[w + 2] = "}}" THEN w + 2 ELSE 0

\* cls.render_key_cre.sub("", content): one pass from the left, each match is dropped and
\* the scan goes on behind it
RECURSIVE RemoveTokens(_)
RemoveTokens(v) ==
    IF Len(v) = 0 THEN <<>>
    ELSE IF MatchLen(v) > 0 THEN RemoveTokens(SubSeq(v, MatchLen(v) + 1, Len(v)))
    ELSE <<Head(v)>> \o RemoveTokens(Tail(v))

\* render_file(src, dst, render_variables, postfix, silent)
RenderFileCall ==
    /\ rf_outcome = "none"
    /\ LET r == ReadSource(rf_source, rf_silent)
       IN  /\ rf_outcome' = IF r = "raise" THEN "raised" ELSE "returned"
           /\ rf_dst' = IF r = "read"
                        THEN [exists |-> TRUE,
                              content |-> RemoveTokens(RenderAll(rf_content, rf_order,
                                                                 rf_variables, rf_postfix))]
                        ELSE rf_dst
    /\ UNCHANGED <<nonRenderVars, rf_source, rf_content, rf_order, rf_variables, rf_postfix,
                   rf_silent, rf_dst_before>>

\* the calls made: a source that is missing, undecodable, or a text of at most four
\* segments; values of at most one segment; a destination that is absent or holds old
\* content
Segments == {Token("a"), <<"{{">>, <<"b">>, <<"}}">>}
SourceTexts == {s1 \o s2 \o s3 \o s4 : s1 \in Segments \cup {<<>>}, s2 \in Segments \cup {<<>>},
                                        s3 \in Segments \cup {<<>>}, s4 \in Segments \cup {<<>>}}
RenderValues == {<<>>, <<"x">>, Token("a"), Token("b"), <<PostfixMark>>}
OldFile == [exists |-> TRUE, content |-> <<"old">>]
InitRender ==
    /\ PostfixIdle
    /\ InputIdle
    /\ ArgsIdle
    /\ ConfigIdle
    /\ DirIdle
    /\ StatusInit
    /\ BatchIdle
    /\ StagerIdle
    /\ LinIdle
    /\ rf_source \in {"missing", "undecodable", "text"}
    /\ rf_content \in IF rf_source = "text" THEN SourceTexts ELSE {<<>>}
    /\ rf_order \in KeyOrders
    /\ rf_variables \in [Range(rf_order) -> RenderValues]
    /\ rf_postfix \in BOOLEAN
    /\ rf_silent \in BOOLEAN
    /\ rf_dst \in {NoFile, OldFile}
    /\ rf_dst_before = rf_dst
    /\ rf_outcome = "none"

NextRender == RenderFileCall
SpecRender == InitRender /\ [][NextRender]_vars

\* ------------------- BaseJobFileFactory.__init__, cleanup_dir and __del__
\* the directories: the configured job.job_file_dir, the one the caller passes as dir, and
\* the one tempfile.mkdtemp creates inside either
BaseDir == "base"
GivenDir == "given"
TmpDir == "tmp"
\* an argument that is None takes the config value
OrConfig(arg, cfg) == IF arg = None THEN cfg ELSE arg[1]
\* shutil.rmtree(d): d goes, and with it the temporary directory created inside it
Rmtree(exists, d, parent) ==
    exists \ ({d} \cup (IF d = parent THEN {TmpDir} ELSE {}))
\* the directory in which mkdtemp creates the temporary one: dir or job.job_file_dir
ParentDir == IF fd_args.dir = None THEN BaseDir ELSE GivenDir

\* if not self.cleanup and not force: return
SkipsCleanup(cleanup, force) == ~cleanup /\ ~force

\* isinstance(self.dir, six.string_types) and os.path.exists(self.dir)
DirFoundAlways(d, exists) == TRUE
DirFound(d, exists) == d \in exists

\* the body of cleanup_dir(force): the directories that exist after it, and whether it
\* raised; shutil.rmtree raises for a directory that does not exist
cleanup_dir(exists, force) ==
    IF SkipsCleanup(fd_self.cleanup, force) THEN [exists |-> exists, raised |-> FALSE]
    ELSE IF DirFound(fd_self.dir, exists)
         THEN IF fd_self.dir \in exists
              THEN [exists |-> Rmtree(exists, fd_self.dir, ParentDir), raised |-> FALSE]
              ELSE [exists |-> exists, raised |-> TRUE]
    ELSE [exists |-> exists, raised |-> FALSE]

FactoryInit ==
    /\ fd_pc = "new"
    /\ LET mkdtemp == OrConfig(fd_args.mkdtemp, fd_cfg.mkdtemp) \/ fd_args.dir = None
           cleanup == OrConfig(fd_args.cleanup, fd_cfg.cleanup)
       IN  /\ fd_self' = [dir |-> IF mkdtemp THEN TmpDir ELSE ParentDir, cleanup |-> cleanup]
           /\ fd_tmp' = mkdtemp
           /\ fd_exists' = fd_exists \cup {ParentDir} \cup (IF mkdtemp THEN {TmpDir} ELSE {})
    /\ fd_exists_before' = fd_exists
    /\ fd_pc' = "alive"
    /\ fd_last' = [op |-> "init", force |-> FALSE, raised |-> FALSE]
    /\ UNCHANGED <<nonDirVars, fd_args, fd_cfg, fd_forced>>

CleanupDir(force) ==
    /\ fd_pc = "alive"
    /\ fd_exists' = cleanup_dir(fd_exists, force).exists
    /\ fd_exists_before' = fd_exists
    /\ fd_forced' = (fd_forced \/ force)
    /\ fd_last' = [op |-> "cleanup_dir", force |-> force,
                   raised |-> cleanup_dir(fd_exists, force).raised]
    /\ UNCHANGED <<nonDirVars, fd_args, fd_cfg, fd_pc, fd_self, fd_tmp>>

\* __del__: self.cleanup_dir(force=False)
FactoryDel ==
    /\ fd_pc = "alive"
    /\ fd_exists' = cleanup_dir(fd_exists, FALSE).exists
    /\ fd_exists_before' = fd_exists
    /\ fd_pc' = "deleted"
    /\ fd_last' = [op |-> "del", force |-> FALSE,
                   raised |-> cleanup_dir(fd_exists, FALSE).raised]
    /\ UNCHANGED <<nonDirVars, fd_args, fd_cfg, fd_self, fd_tmp, fd_forced>>

\* the factories constructed: dir passed or not, mkdtemp and cleanup unset, False or True,
\* either config value, and the directories that exist beforehand
OptBool == {None, Some(FALSE), Some(TRUE)}
InitDir ==
    /\ PostfixIdle
    /\ InputIdle
    /\ ArgsIdle
    /\ ConfigIdle
    /\ StatusInit
    /\ BatchIdle
    /\ StagerIdle
    /\ LinIdle
    /\ RenderIdle
    /\ fd_args \in [dir : {None, Some(GivenDir)}, mkdtemp : OptBool, cleanup : OptBool]
    /\ fd_cfg \in [mkdtemp : BOOLEAN, cleanup : BOOLEAN]
    /\ fd_pc = "new"
    /\ fd_self = [dir |-> "", cleanup |-> FALSE]
    /\ fd_tmp = FALSE
    /\ fd_exists \in SUBSET {BaseDir, GivenDir}
    /\ fd_exists_before = fd_exists
    /\ fd_forced = FALSE
    /\ fd_last = NoDirCall

NextDir ==
    \/ FactoryInit
    \/ \E force \in BOOLEAN : CleanupDir(force)
    \/ FactoryDel

SpecDir == InitDir /\ [][NextDir]_vars

\* ---------------------------------------------- BaseJobFileFactory.get_config
MaxConfigs == 2
MaxMutations == 2

config_attrs == <<"dir", "render_variables", "custom_log_file">>
\* a value is None, a string, or a reference to a mutable object of the heap
NoneV == [kind |-> "none", id |-> 0, str |-> ""]
Str(x) == [kind |-> "str", id |-> 0, str |-> x]
Ref(i) == [kind |-> "ref", id |-> i, str |-> ""]
IsRef(v) == v.kind = "ref"

\* the content of a value: what a reader of the value sees, whatever the objects' identity
\* (objects nest two deep at most)
RECURSIVE Content(_, _, _)
ContentOfSeq(heap, vs, depth) ==
    LET RECURSIVE cat(_)
        cat(i) == IF i > Len(vs) THEN <<>> ELSE Content(heap, vs[i], depth) \o cat(i + 1)
    IN  cat(1)
Content(heap, v, depth) ==
    IF v.kind = "none" THEN <<"None">>
    ELSE IF v.kind = "str" THEN <<v.str>>
    ELSE IF depth = 0 THEN <<"...">>
    ELSE <<"[">> \o ContentOfSeq(heap, heap[v.id], depth - 1) \o <<"]">>
ContentOf(heap, d) == [a \in DOMAIN d |-> Content(heap, d[a], 2)]

\* the number of references among the first i values of an object
RefsUpTo(obj, i) == Cardinality({j \in 1..i : IsRef(obj[j])})
\* the positions of the references of an object, in order
RefPositions(obj) == SelectSeq([j \in 1..Len(obj) |-> j], LAMBDA j : IsRef(obj[j]))

\* copy.copy(v): a new object with the same values
ShallowCopy(heap, v) ==
    IF ~IsRef(v) THEN [heap |-> heap, val |-> v]
    ELSE [heap |-> Append(heap, heap[v.id]), val |-> Ref(Len(heap) + 1)]
\* copy.deepcopy(v): a new object whose mutable values are new objects too
DeepCopy(heap, v) ==
    IF ~IsRef(v) THEN [heap |-> heap, val |-> v]
    ELSE LET obj == heap[v.id]
             pos == RefPositions(obj)
             n == Len(pos)
             inner == [k \in 1..n |-> heap[obj[pos[k]].id]]
             outer == [i \in 1..Len(obj) |->
                          IF IsRef(obj[i]) THEN Ref(Len(heap) + RefsUpTo(obj, i)) ELSE obj[i]]
         IN  [heap |-> heap \o inner \o <<outer>>, val |-> Ref(Len(heap) + n + 1)]

\* kwargs.get(attr, getattr(self, attr))
OverrideOrOwn(kwargs, own, attr) == IF attr \in DOMAIN kwargs THEN kwargs[attr] ELSE own[attr]

\* the loop of get_config over config_attrs: the heap and the configuration after it
RECURSIVE ConfigLoop(_, _, _)
ConfigLoop(heap, cfg, attrs) ==
    IF Len(attrs) = 0 THEN [heap |-> heap, cfg |-> cfg]
    ELSE LET c == DeepCopy(heap, OverrideOrOwn(gc_kwargs, gc_self, Head(attrs)))
         IN  ConfigLoop(c.heap, DictPut(cfg, Head(attrs), c.val), Tail(attrs))

GetConfig ==
    /\ Len(gc_cfgs) < MaxConfigs
    /\ LET r == ConfigLoop(gc_heap, EmptyDict, config_attrs)
       IN  /\ gc_heap' = r.heap
           /\ gc_cfgs' = Append(gc_cfgs, r.cfg)
           /\ gc_returned' = Append(gc_returned, ContentOf(r.heap, r.cfg))
    /\ UNCHANGED <<nonConfigVars, gc_self, gc_kwargs, gc_orig, gc_mutations>>

\* the objects reached from a returned configuration
ObjectsOf(cfg) ==
    LET top == {cfg[a].id : a \in {b \in DOMAIN cfg : IsRef(cfg[b])}}
    IN  top \cup UNION {{gc_heap[o][i].id : i \in {j \in 1..Len(gc_heap[o]) :
                                                       IsRef(gc_heap[o][j])}} : o \in top}

\* the caller changes an object of a configuration it got: cfg.render_variables["m"] = "m"
MutateConfig ==
    /\ gc_mutations < MaxMutations
    /\ \E c \in 1..Len(gc_cfgs) : \E o \in ObjectsOf(gc_cfgs[c]) :
          gc_heap' = [gc_heap EXCEPT ![o] = Append(@, Str("m"))]
    /\ gc_mutations' = gc_mutations + 1
    /\ UNCHANGED <<nonConfigVars, gc_self, gc_kwargs, gc_cfgs, gc_orig, gc_returned>>

\* the caller replaces an attribute of a configuration it got: cfg.dir = "m"
AssignConfig ==
    /\ gc_mutations < MaxMutations
    /\ \E c \in 1..Len(gc_cfgs) : \E a \in DOMAIN gc_cfgs[c] :
          gc_cfgs' = [gc_cfgs EXCEPT ![c][a] = Str("m")]
    /\ gc_mutations' = gc_mutations + 1
    /\ UNCHANGED <<nonConfigVars, gc_heap, gc_self, gc_kwargs, gc_orig, gc_returned>>

\* the factories and calls: render_variables a dict that is empty, holds a string, or holds
\* a string and a list; custom_log_file None or a string; kwargs with any of the
\* attributes, among them an explicit None and a dict that holds a list
HeapArgs == {<<<<>>, <<Str("w")>>, <<Ref(4)>>, <<Str("z")>>>>,
              <<<<Str("v")>>, <<Str("w")>>, <<Ref(4)>>, <<Str("z")>>>>,
              <<<<Str("v"), Ref(2)>>, <<Str("w")>>, <<Ref(4)>>, <<Str("z")>>>>}
KwargsValues(a) ==
    IF a = "render_variables" THEN {Ref(3), NoneV} ELSE {Str("k"), NoneV}
AttrSet == {config_attrs[i] : i \in 1..Len(config_attrs)}
InitConfig ==
    /\ PostfixIdle
    /\ InputIdle
    /\ ArgsIdle
    /\ StatusInit
    /\ BatchIdle
    /\ StagerIdle
    /\ LinIdle
    /\ RenderIdle
    /\ DirIdle
    /\ gc_heap \in HeapArgs
    /\ gc_self \in {[a \in AttrSet |-> IF a = "dir" THEN Str("d")
                                      ELSE IF a = "render_variables" THEN Ref(1)
                                      ELSE l] : l \in {NoneV, Str("l")}}
    /\ gc_kwargs \in UNION {{f \in [K -> {Ref(3), NoneV, Str("k")}] :
                                \A a \in K : f[a] \in KwargsValues(a)} : K \in SUBSET AttrSet}
    /\ gc_cfgs = <<>>
    /\ gc_orig = [self |-> ContentOf(gc_heap, gc_self), kwargs |-> ContentOf(gc_heap, gc_kwargs)]
    /\ gc_returned = <<>>
    /\ gc_mutations = 0

NextConfig ==
    \/ GetConfig
    \/ MutateConfig
    \/ AssignConfig

SpecConfig == InitConfig /\ [][NextConfig]_vars

\* ------------------------------------------------------------ JobArguments
MaxStrLen == 2
MaxListLen == 2

\* strings are sequences of character codes; the characters used are " ", "-", "1", "a"
Space == 32
Dash == 45
Digit1 == 49
LetterA == 97
Pad == 61
Chars == {Space, Dash, LetterA}
TextYes == <<121, 101, 115>>
TextNo == <<110, 111>>
\* task_cls.__module__ and task_cls.__name__ of the task class "m.T"
ModuleName == <<109>>
ClassName == <<84>>

\* the base64 alphabet: A-Z, a-z, 0-9, +, /
B64Char(i) ==
    IF i < 26 THEN 65 + i
    ELSE IF i < 52 THEN 97 + (i - 26)
    ELSE IF i < 62 THEN 48 + (i - 52)
    ELSE IF i = 62 THEN 43
    ELSE 47
B64Index(c) ==
    IF c >= 65 /\ c <= 90 THEN c - 65
    ELSE IF c >= 97 /\ c <= 122 THEN c - 97 + 26
    ELSE IF c >= 48 /\ c <= 57 THEN c - 48 + 52
    ELSE IF c = 43 THEN 62
    ELSE IF c = 47 THEN 63
    ELSE 0
\* base64 of one group of one to three bytes: four characters, padded with "="
B64Group(g) ==
    LET byte(i) == IF i <= Len(g) THEN g[i] ELSE 0
        n == byte(1) * 65536 + byte(2) * 256 + byte(3)
        six == <<n \div 262144, (n \div 4096) % 64, (n \div 64) % 64, n % 64>>
    IN  [i \in 1..4 |-> IF i <= Len(g) + 1 THEN B64Char(six[i]) ELSE Pad]
\* base64.b64encode(bytes)
RECURSIVE b64encode(_)
b64encode(bytes) ==
    IF Len(bytes) = 0 THEN <<>>
    ELSE IF Len(bytes) <= 3 THEN B64Group(bytes)
    ELSE B64Group(SubSeq(bytes, 1, 3)) \o b64encode(SubSeq(bytes, 4, Len(bytes)))
\* base64.b64decode(token), as the job wrapper script does
B64Ungroup(q) ==
    LET pads == Cardinality({i \in 1..4 : q[i] = Pad})
        n == B64Index(q[1]) * 262144 + B64Index(q[2]) * 4096
             + (IF q[3] = Pad THEN 0 ELSE B64Index(q[3]) * 64)
             + (IF q[4] = Pad THEN 0 ELSE B64Index(q[4]))
        bytes == <<n \div 65536, (n \div 256) % 256, n % 256>>
    IN  SubSeq(bytes, 1, 3 - pads)
RECURSIVE b64decode(_)
b64decode(token) ==
    IF Len(token) < 4 THEN <<>>
    ELSE B64Ungroup(SubSeq(token, 1, 4)) \o b64decode(SubSeq(token, 5, Len(token)))

\* s or "-"
OrDash(s) == IF Len(s) = 0 THEN <<Dash>> ELSE s
\* " ".join(texts)
JoinNoSeparator(texts) ==
    LET RECURSIVE cat(_)
        cat(i) == IF i > Len(texts) THEN <<>> ELSE texts[i] \o cat(i + 1)
    IN  cat(1)
JoinSpace(texts) ==
    LET RECURSIVE cat(_)
        cat(i) == IF i > Len(texts) THEN <<>>
                  ELSE IF i = Len(texts) THEN texts[i]
                  ELSE texts[i] \o <<Space>> \o cat(i + 1)
    IN  cat(1)
\* a list value is a string or an integer; str(v) is its text
StrValue(t) == [int |-> FALSE, text |-> t]
IntValue(t) == [int |-> TRUE, text |-> t]
TextsOf(l) == [i \in 1..Len(l) |-> l[i].text]

encode_bool(b) == IF b THEN TextYes ELSE TextNo
encode_string_raw(s) == b64encode(s)
encode_string(s) == b64encode(OrDash(s))
encode_list(l) == b64encode(OrDash(JoinSpace(TextsOf(l))))

get_args ==
    <<ModuleName, ClassName, encode_string(ja_task_params), encode_list(ja_branches),
      encode_bool(ja_auto_retry), encode_list(ja_dashboard_data)>>

GetArgs ==
    /\ ja_args' = get_args
    /\ UNCHANGED <<nonArgVars, ja_task_params, ja_branches, ja_auto_retry, ja_dashboard_data,
                   ja_joined>>

\* join: " ".join(str(item) for item in self.get_args())
JoinArgs ==
    /\ ja_joined' = JoinSpace(get_args)
    /\ UNCHANGED <<nonArgVars, ja_task_params, ja_branches, ja_auto_retry, ja_dashboard_data,
                   ja_args>>

\* the objects constructed: strings of at most MaxStrLen characters, branch lists of at
\* most MaxListLen values, and dashboard data that is None, empty or one value
RECURSIVE StringsUpTo(_)
StringsUpTo(n) ==
    IF n = 0 THEN {<<>>}
    ELSE StringsUpTo(n - 1) \cup {Append(t, c) : t \in {u \in StringsUpTo(n - 1) : Len(u) = n - 1},
                                                 c \in Chars}
ListValues == {IntValue(<<Digit1>>), StrValue(<<Digit1>>), StrValue(<<>>), StrValue(<<Dash>>),
               StrValue(<<LetterA, Space, LetterA>>)}
RECURSIVE ListsUpTo(_)
ListsUpTo(n) ==
    IF n = 0 THEN {<<>>}
    ELSE ListsUpTo(n - 1) \cup {Append(l, v) : l \in {m \in ListsUpTo(n - 1) : Len(m) = n - 1},
                                               v \in ListValues}
\* self.dashboard_data = dashboard_data or []
DashboardArgs == {None, <<>>, <<StrValue(<<LetterA>>)>>}
InitArgs ==
    /\ PostfixIdle
    /\ InputIdle
    /\ StatusInit
    /\ BatchIdle
    /\ StagerIdle
    /\ LinIdle
    /\ RenderIdle
    /\ DirIdle
    /\ ConfigIdle
    /\ ja_task_params \in StringsUpTo(MaxStrLen)
    /\ ja_branches \in ListsUpTo(MaxListLen)
    /\ ja_auto_retry \in BOOLEAN
    /\ ja_dashboard_data \in {IF d = None THEN <<>> ELSE d : d \in DashboardArgs}
    /\ ja_args = <<>>
    /\ ja_joined = <<>>

NextArgs ==
    \/ GetArgs
    \/ JoinArgs

SpecArgs == InitArgs /\ [][NextArgs]_vars

\* ------------------------------------------------------ JobInputFile.__init__
\* maybe_set = lambda current, default: default if current is None else current
maybe_set_always(current, default) == Some(default)
maybe_set(current, default) == IF current = None THEN Some(default) ELSE current
IsTrue(v) == v = Some(TRUE)
IsFalse(v) == v = Some(FALSE)

\* if isinstance(path, JobInputFile): the flags are those of that instance
FromPath(in, path) ==
    IF path = None THEN in
    ELSE [n \in DOMAIN in |-> IF n = "render" THEN in[n] ELSE Some(path[1][n])]

\* if render is not None and render_local is None and render_job is None
Convenience(f) ==
    IF f.render # None /\ f.render_local = None /\ f.render_job = None
    THEN [f EXCEPT !.render_local = Some(f.render[1]), !.render_job = Some(FALSE)]
    ELSE f
\* if copy is not None and not copy
WhenNoCopy(f) ==
    IF IsFalse(f.copy)
    THEN [f EXCEPT !.share = maybe_set(@, FALSE),
                   !.postfix = maybe_set(@, FALSE),
                   !.render_local = maybe_set(@, FALSE)]
    ELSE f
WhenShareKeepsRender(f) ==
    IF IsTrue(f.share)
    THEN [f EXCEPT !.copy = maybe_set(@, TRUE),
                   !.forward = maybe_set(@, FALSE),
                   !.postfix = maybe_set(@, FALSE)]
    ELSE f
\* if share
WhenShare(f) ==
    IF IsTrue(f.share)
    THEN [f EXCEPT !.copy = maybe_set(@, TRUE),
                   !.forward = maybe_set(@, FALSE),
                   !.render_local = maybe_set(@, FALSE),
                   !.postfix = maybe_set(@, FALSE)]
    ELSE f
\* if forward
WhenForward(f) ==
    IF IsTrue(f.forward)
    THEN [f EXCEPT !.copy = maybe_set(@, FALSE),
                   !.share = maybe_set(@, FALSE),
                   !.render_local = maybe_set(@, FALSE),
                   !.postfix = maybe_set(@, FALSE)]
    ELSE f
\* if postfix
WhenPostfix(f) ==
    IF IsTrue(f.postfix)
    THEN [f EXCEPT !.copy = maybe_set(@, TRUE),
                   !.share = maybe_set(@, FALSE),
                   !.forward = maybe_set(@, FALSE)]
    ELSE f
\* if render_local
WhenRenderLocal(f) ==
    IF IsTrue(f.render_local)
    THEN [f EXCEPT !.copy = maybe_set(@, TRUE),
                   !.share = maybe_set(@, FALSE),
                   !.forward = maybe_set(@, FALSE),
                   !.render_job = maybe_set(@, FALSE)]
    ELSE f
\* if render_job
WhenRenderJob(f) ==
    IF IsTrue(f.render_job)
    THEN [f EXCEPT !.forward = maybe_set(@, FALSE),
                   !.render_local = maybe_set(@, FALSE)]
    ELSE f

\* self.copy = True if copy is None else bool(copy), and so on
ResidualCopyFalse(n) == n \in {"postfix", "render_local"}
Residual(n) == n \in {"copy", "postfix", "render_local"}
StoreFlags(f) == [n \in FlagNames |-> IF f[n] = None THEN Residual(n) ELSE f[n][1]]

\* the flags after the rules, before they are stored
Normalized(in, path) ==
    WhenRenderJob(WhenRenderLocal(WhenPostfix(WhenForward(WhenShare(WhenNoCopy(
        Convenience(FromPath(in, path))))))))

\* the residual attribute checks: the warnings logged
NoWarnings(a) == {}
Warnings(a) ==
    (IF ~a.copy /\ a.postfix THEN {"no copy but postfix"} ELSE {})
    \cup (IF ~a.copy /\ a.share THEN {"no copy but share"} ELSE {})
    \cup (IF a.copy /\ a.forward THEN {"copy but forward"} ELSE {})
    \cup (IF ~a.copy /\ a.render_local THEN {"no copy but render_local"} ELSE {})
    \cup (IF a.share /\ a.render_local THEN {"share but render_local"} ELSE {})
    \cup (IF a.render_local /\ a.render_job THEN {"render_local and render_job"} ELSE {})

NewInputFile ==
    /\ jf_pc = "new"
    /\ jf_flags' = StoreFlags(Normalized(jf_in, jf_path))
    /\ jf_warnings' = Warnings(StoreFlags(Normalized(jf_in, jf_path)))
    /\ jf_pc' = "done"
    /\ UNCHANGED <<nonInputVars, jf_in, jf_path>>

\* the constructions: every flag unset, False or True; path a string, or a JobInputFile
\* that was constructed with no flag or with share=True
InstanceArgs == {AllUnset, [AllUnset EXCEPT !.share = Some(TRUE)]}
InitInput ==
    /\ PostfixIdle
    /\ StatusInit
    /\ BatchIdle
    /\ StagerIdle
    /\ LinIdle
    /\ RenderIdle
    /\ DirIdle
    /\ ConfigIdle
    /\ ArgsIdle
    /\ jf_in \in [FlagNames \cup {"render"} -> OptBool]
    /\ jf_path \in {None} \cup {Some(StoreFlags(Normalized(a, None))) : a \in InstanceArgs}
    /\ jf_pc = "new"
    /\ jf_flags = NoFlags
    /\ jf_warnings = {}

NextInput == NewInputFile
SpecInput == InitInput /\ [][NextInput]_vars

\* --------------------------------------------- BaseJobFileFactory.postfix_file
MaxPathLen == 5

\* os.path.split(path): the text up to the last "/" without its trailing slashes (unless
\* it consists of slashes), and the text behind the last "/"
RECURSIVE LastSlash(_)
LastSlash(p) ==
    IF Len(p) = 0 THEN 0
    ELSE IF p[Len(p)] = "/" THEN Len(p)
    ELSE LastSlash(SubSeq(p, 1, Len(p) - 1))
RECURSIVE RStripSlash(_)
RStripSlash(h) ==
    IF Len(h) > 0 /\ h[Len(h)] = "/" THEN RStripSlash(SubSeq(h, 1, Len(h) - 1)) ELSE h
PathSplit(p) ==
    LET i == LastSlash(p)
        head == SubSeq(p, 1, i)
    IN  [dirname |-> IF \E k \in 1..Len(head) : head[k] # "/" THEN RStripSlash(head) ELSE head,
         basename |-> SubSeq(p, i + 1, Len(p))]

\* os.path.join(a, b)
PathJoin(a, b) ==
    IF Len(b) > 0 /\ b[1] = "/" THEN b
    ELSE IF Len(a) = 0 \/ a[Len(a)] = "/" THEN a \o b
    ELSE a \o <<"/">> \o b

\* basename.split(".", 1) and ".".join(parts)
RECURSIVE DotFrom(_, _)
DotFrom(b, i) == IF i > Len(b) THEN 0 ELSE IF b[i] = "." THEN i ELSE DotFrom(b, i + 1)
RECURSIVE DotBefore(_, _)
DotBefore(b, i) == IF i < 1 THEN 0 ELSE IF b[i] = "." THEN i ELSE DotBefore(b, i - 1)
SplitLastDot(b) ==
    LET i == DotBefore(b, Len(b))
    IN  IF i = 0 THEN <<b>> ELSE <<SubSeq(b, 1, i - 1), SubSeq(b, i + 1, Len(b))>>
SplitFirstDot(b) ==
    LET i == DotFrom(b, 1)
    IN  IF i = 0 THEN <<b>> ELSE <<SubSeq(b, 1, i - 1), SubSeq(b, i + 1, Len(b))>>
JoinDot(parts) == IF Len(parts) = 1 THEN parts[1] ELSE parts[1] \o <<".">> \o parts[2]

\* fnmatch.fnmatch(basename, pattern) for the patterns "*" and "*.*"
FnMatch(basename, pattern) == pattern = "*" \/ (pattern = "*.*" /\ DotFrom(basename, 1) > 0)

\* the for / else over the items of a dictionary postfix: the postfix of the first pattern
\* that matches, "" when none does
RECURSIVE FirstMatch(_, _)
FirstMatch(items, basename) ==
    IF Len(items) = 0 THEN <<>>
    ELSE IF FnMatch(basename, Head(items)[1]) THEN Head(items)[2]
    ELSE FirstMatch(Tail(items), basename)

\* os.path.realpath(os.path.expandvars(os.path.expanduser(path))) for paths without "~",
\* "$", dot components and symbolic links: a relative path is taken from the working
\* directory
FullPath(path, cwd) ==
    IF Len(path) > 0 /\ path[1] = "/" THEN path ELSE cwd \o <<"/">> \o path
\* create_hash(full_path): a text without "/" and "." that is a function of full_path
create_hash(full) == <<"h">> \o SelectSeq(full, LAMBDA ch : ch \notin {"/", "."})

\* postfix_file(path, postfix, add_hash)
postfix_file(path, postfix, add_hash, cwd) ==
    LET sp == PathSplit(path)
        given == CASE postfix.kind = "dict" -> FirstMatch(postfix.items, sp.basename)
                   [] postfix.kind = "str" -> postfix.str
                   [] OTHER -> <<>>
        used == IF add_hash THEN <<"_">> \o create_hash(FullPath(path, cwd)) \o given
                ELSE given
        parts == SplitFirstDot(sp.basename)
    IN  IF Len(used) > 0
        THEN PathJoin(sp.dirname, JoinDot([parts EXCEPT ![1] = @ \o used]))
        ELSE path

PostfixFile ==
    /\ pf_pc = "new"
    /\ pf_result' = postfix_file(pf_path, pf_postfix, pf_add_hash, pf_cwd)
    /\ pf_first' = pf_result'
    /\ pf_pc' = "once"
    /\ UNCHANGED <<nonPostfixVars, pf_path, pf_postfix, pf_add_hash, pf_cwd>>

PostfixFileAgain ==
    /\ pf_pc = "once"
    /\ pf_result' = postfix_file(pf_path, pf_postfix, pf_add_hash, pf_cwd)
    /\ pf_pc' = "again"
    /\ UNCHANGED <<nonPostfixVars, pf_path, pf_postfix, pf_add_hash, pf_cwd, pf_first>>

\* the calls made: paths of up to MaxPathLen characters out of "/", "." and a letter; no
\* postfix, the postfixes "" and "_1", and dictionaries of patterns
RECURSIVE PathsUpTo(_)
PathsUpTo(n) ==
    IF n = 0 THEN {<<>>}
    ELSE PathsUpTo(n - 1)
         \cup {Append(p, ch) : p \in {q \in PathsUpTo(n - 1) : Len(q) = n - 1},
                               ch \in {"/", ".", "a"}}
StrPostfix(s) == [kind |-> "str", str |-> s, items |-> <<>>]
DictPostfix(items) == [kind |-> "dict", str |-> <<>>, items |-> items]
PostfixArgs ==
    {NoPostfix, StrPostfix(<<>>), StrPostfix(<<"_", "1">>),
     DictPostfix(<<>>),
     DictPostfix(<< <<"*.*", <<"_", "1">>>>, <<"*", <<"_", "2">>>> >>),
     DictPostfix(<< <<"*.*", <<"_", "1">>>> >>)}
InitPostfix ==
    /\ StatusInit
    /\ BatchIdle
    /\ StagerIdle
    /\ LinIdle
    /\ RenderIdle
    /\ DirIdle
    /\ ConfigIdle
    /\ ArgsIdle
    /\ InputIdle
    /\ pf_path \in PathsUpTo(MaxPathLen)
    /\ pf_postfix \in PostfixArgs
    /\ pf_add_hash \in BOOLEAN
    /\ pf_cwd \in {<<"/", "c">>, <<"/", "d">>}
    /\ pf_pc = "new"
    /\ pf_first = <<>>
    /\ pf_result = <<>>

NextPostfix == PostfixFile \/ PostfixFileAgain
SpecPostfix == InitPostfix /\ [][NextPostfix]_vars

\* ------------------------------------------------------------------ claims
NumItems == Len(job_items)
Size == EffChunkSize(chunk_size, chunk_size_default)
\* the atomic call that handles the i-th item (1-based), and the item's place in it
CallOf(i) == IF Size > 0 THEN ((i - 1) \div Size) + 1 ELSE i
PlaceOf(i) == IF Size > 0 THEN (i - 1) % Size ELSE 0
\* how often v occurs in the list l
Count(l, v) == Cardinality({n \in 1..Len(l) : l[n] = v})

\* C1: submit_batch returns a list as long as job_files whose i-th entry is the job
\* id returned for, or the exception raised for, the i-th job file, whatever the
\* chunking, the pool size and the order of completion.
C1_SubmitAligned ==
    (phase = "returned" /\ op = "submit") =>
        /\ Len(ret) = NumItems
        /\ \A i \in 1..NumItems :
              ret[i] = IF task_result[CallOf(i)] = "exc" THEN Exc(CallOf(i))
                       ELSE Val(CallOf(i), PlaceOf(i))

\* a chunked submit of three job files in chunks of two, the second chunk's callback
\* having run before the first one's
C1_Witness ==
    /\ phase = "returned" /\ op = "submit" /\ chunking /\ has_callback
    /\ NumItems = 3 /\ Len(chunks) = 2
    /\ cb_log # <<>> /\ cb_log[1][1] = 2

\* C2: query_batch returns a mapping with one entry per input job id, each job id
\* mapped to the status record returned for it or to the exception raised by the
\* query that covered it.
C2_QueryAligned ==
    (phase = "returned" /\ op = "query") =>
        /\ Len(ret) = NumItems
        /\ \A i \in 1..NumItems :
              /\ DictHas(ret, job_items[i])
              /\ DictGet(ret, job_items[i]) =
                    IF task_result[CallOf(i)] = "exc" THEN Exc(CallOf(i))
                    ELSE Val(CallOf(i), job_items[i])

\* a chunked query of three job ids given in descending order, one chunk failing
C2_Witness ==
    /\ phase = "returned" /\ op = "query" /\ chunking
    /\ job_items = <<103, 102, 101>>
    /\ task_result = <<"ok", "exc">>

\* C3: no batch call ends by raising the exception of an atomic call; when it
\* returns, the exception of every atomic call that raised is part of the return value.
C3_NoPropagation ==
    /\ phase # "raised"
    /\ phase = "returned" =>
          \A c \in Units :
              task_result[c] = "exc" =>
                  \E n \in 1..Len(ret) :
                      IF op = "query" THEN ret[n][2] = Exc(c) ELSE ret[n] = Exc(c)

\* a batch call returned although some but not all of its atomic calls raised
C3_Witness ==
    /\ phase = "returned"
    /\ \E c \in Units : task_result[c] = "exc"
    /\ \E c \in Units : task_result[c] = "ok"

\* C4: when a callback is given, it has been invoked exactly once per original
\* index by the time the batch call returns, with the exception as second argument
\* for an item whose atomic call raised.
C4_CallbackOncePerItem ==
    (phase = "returned" /\ has_callback) =>
        \A i \in 1..NumItems :
            /\ Cardinality({n \in 1..Len(cb_log) : cb_log[n][1] = i - 1}) = 1
            /\ task_result[CallOf(i)] = "exc" =>
                  \E n \in 1..Len(cb_log) : cb_log[n] = <<i - 1, Exc(CallOf(i))>>

\* C5: in a chunked batch call with a callback, once the result of a chunk whose
\* atomic call returned has been processed, the callback has been invoked for the
\* j-th item of the chunk with the index (length of all chunks before it) + j and
\* the result of that item.
C5_ChunkedCallbackIndex ==
    (chunking /\ has_callback) =>
        \A c \in Units :
            (task_state[c] \in {"handled", "stuck"} /\ task_result[c] = "ok") =>
                \A j \in 0..(Len(chunks[c]) - 1) :
                    \E n \in 1..Len(cb_log) :
                        cb_log[n] = <<SumLen(chunks, c - 1) + j,
                                      CASE op = "submit" -> Val(c, j)
                                        [] op = "query" -> Val(c, chunks[c][j + 1])
                                        [] OTHER -> NoneVal>>

\* C6: when the atomic call of a chunk raises in submit_batch or query_batch, that
\* exception is the result of every item of the chunk, and the items of the chunks
\* whose call returned keep the results of their own call.
C6_ChunkErrorBroadcast ==
    (phase = "returned" /\ chunking /\ op \in {"submit", "query"}) =>
        \A c \in Units : \A n \in 1..Len(chunks[c]) :
            LET slot == SumLen(chunks, c - 1) + n
                got == IF op = "submit" THEN ret[slot] ELSE DictGet(ret, chunks[c][n])
            IN  /\ op = "submit" => slot \in 1..Len(ret)
                /\ op = "query" => DictHas(ret, chunks[c][n])
                /\ IF task_result[c] = "exc" THEN got = Exc(c)
                   ELSE got.kind = "val" /\ got.call = c

\* a chunked submit whose first chunk, of two job files, raised and whose second returned
C6_Witness ==
    /\ phase = "returned" /\ op = "submit" /\ chunking
    /\ Len(chunks) = 2 /\ Len(chunks[1]) = 2
    /\ task_result = <<"exc", "ok">>

C8_NoErrorsOnSuccess ==
    (phase = "returned" /\ op \in {"cancel", "cleanup"}
        /\ \A c \in Units : task_result[c] = "ok") => ret = <<>>

\* a cancel of three job ids, every call of which succeeded, returned
C8_Witness ==
    /\ phase = "returned" /\ op = "cancel" /\ NumItems = 3
    /\ \A c \in Units : task_result[c] = "ok"

\* C9: once pool.join() has returned, and so when the batch call returns, no
\* atomic call of the batch is waiting to start or running, and every result is set.
C9_Barrier ==
    phase \in {"joined", "returned", "raised"} =>
        \A c \in Units : task_state[c] = "handled"

\* a batch call over several units on a pool of several workers returned
C9_Witness ==
    /\ phase = "returned" /\ Len(chunks) >= 2 /\ pool_size >= 2

\* C10: the atomic calls running at the same time are never more than the threads
\* argument when it is positive, else the instance's threads setting, and at least
\* one; the pool always has at least one worker.
ClaimedPoolSize ==
    IF threads # None /\ threads[1] > 0 THEN threads[1]
    ELSE Max(IF self_threads = None THEN 1 ELSE self_threads[1], 1)

C10_PoolBound ==
    phase # "called" =>
        /\ pool_size >= 1
        /\ Cardinality(Running) <= ClaimedPoolSize

\* a batch call with a negative threads argument ran several units and returned
C10_Witness ==
    /\ phase = "returned" /\ threads = Some(-1) /\ Len(chunks) >= 2

\* every item is its own unit of work
Unchunked ==
    /\ ~chunking
    /\ Len(chunks) = NumItems
    /\ \A c \in 1..Len(chunks) : chunks[c] = <<job_items[c]>>

\* the units are the contiguous slices of k items, the last one possibly shorter
ChunkedBy(k) ==
    /\ chunking
    /\ Len(chunks) = (NumItems + k - 1) \div k
    /\ \A c \in 1..Len(chunks) :
          chunks[c] = SubSeq(job_items, (c - 1) * k + 1, Min(c * k, NumItems))

\* C11 as stated: the effective chunk size is the chunk_size argument when one is
\* passed and the configured default otherwise, so that a positive chunk_size gives
\* chunks of that size also when the configured default is 0.
C11_ArgumentFirst ==
    phase # "called" =>
        LET eff == IF chunk_size # None THEN chunk_size[1] ELSE chunk_size_default
        IN  IF eff > 0 THEN ChunkedBy(eff) ELSE Unchunked

\* C11 amended: with a configured default of 0 nothing is chunked, whatever
\* chunk_size is passed; with a non-zero default a positive chunk_size argument gives
\* chunks of that size, a negative one no chunking, and no argument chunks of the
\* default size.
C11_ChunkSizeRule ==
    phase # "called" =>
        /\ chunk_size_default = 0 => Unchunked
        /\ (chunk_size_default # 0 /\ chunk_size # None /\ chunk_size[1] > 0) =>
              ChunkedBy(chunk_size[1])
        /\ (chunk_size_default # 0 /\ chunk_size # None /\ chunk_size[1] < 0) => Unchunked
        /\ (chunk_size_default > 0 /\ chunk_size = None) => ChunkedBy(chunk_size_default)

\* three items dispatched with chunk_size = 2 on an operation whose default is 0
C11_Witness ==
    /\ phase = "returned" /\ chunk_size_default = 0 /\ chunk_size = Some(2)
    /\ NumItems = 3 /\ Len(chunks) = 3

\* C12: chunk_size = 0 disables chunking for the call, every item being dispatched
\* as its own atomic call, also when the configured default chunk size is positive.
C12_ZeroDisablesChunking ==
    (phase # "called" /\ chunk_size = Some(0)) => Unchunked

\* ------------------------------------------------------ status_line claims
NumStatus == Len(StatusNames)
Called == sl_call # NoCall
Returned == sl_result.outcome = "line"
Raised == sl_result.outcome \in {"raise_last_length", "raise_counts_length",
                                  "raise_unbound_diffs"}
\* the line "all: <sum>, <status>: <count>, ..." without differences for a count vector
PlainEntries(counts) ==
    [i \in 1..NumStatus |-> [status |-> StatusNames[i], count |-> counts[i], diff |-> NoDiff]]

\* C13: a status_line call on a fresh manager with counts of the right length and no
\* last_counts argument returns the line without differences: the sum, then each status
\* with its count in the order of the status names; for [2,0,0,0,0] without timestamp it
\* is "all: 2, pending: 2, running: 0, finished: 0, retry: 0, failed: 0".
C13_PlainLine ==
    (/\ Called
     /\ sl_before = Zeros(NumStatus)
     /\ Len(sl_call.counts) = NumStatus
     /\ sl_call.last_counts = NoPrior
     /\ sl_call.sum_counts = None)
    => /\ Returned
       /\ sl_result.timestamp = sl_call.timestamp
       /\ sl_result.sum = SumSeq(sl_call.counts)
       /\ sl_result.entries = PlainEntries(sl_call.counts)

\* C14: a call with last_counts=True that returns reports for every status the difference
\* between its count and the count of that status in the last call that returned before
\* it, or its count itself when no call returned before it.
C14_ImplicitDeltas ==
    (Called /\ sl_call.last_counts = PriorTrue /\ Len(sl_call.counts) = NumStatus)
    => /\ Returned
       /\ Len(sl_result.entries) = NumStatus
       /\ \A i \in 1..NumStatus :
             /\ sl_result.entries[i].status = StatusNames[i]
             /\ sl_result.entries[i].count = sl_call.counts[i]
             /\ sl_result.entries[i].diff = FmtDiff(sl_call.counts[i] - sl_before[i])

\* [2,0,0,0,0] was reported, then [0,2,0,0,0] with last_counts=True gave
\* "pending: 0 (-2), running: 2 (+2)"
C14_Witness ==
    /\ sl_before = <<2, 0, 0, 0, 0>>
    /\ sl_call.counts = <<0, 2, 0, 0, 0>>
    /\ sl_call.last_counts = PriorTrue
    /\ Returned
    /\ sl_result.entries[1].diff = <<"-", 2>>
    /\ sl_result.entries[2].diff = <<"+", 2>>

\* C15: every call that returns a line leaves self.last_counts equal to the counts of that
\* call, also when the call was given an explicit list as last_counts; a call that raises
\* leaves self.last_counts as it was, so the explicit list is never stored.
C15_StoresReported ==
    /\ (Called /\ Returned) => last_counts = sl_call.counts
    /\ (Called /\ ~Returned) => last_counts = sl_before
    /\ last_counts = sl_reported

\* a call with an explicit prior list different from its counts returned
C15_Witness ==
    /\ Returned
    /\ sl_call.last_counts.kind = "list"
    /\ sl_call.last_counts.val # sl_call.counts
    /\ sl_call.last_counts.val # sl_before
    /\ sl_call.counts # sl_before
    /\ last_counts = sl_call.counts

\* C16: a call whose counts, or whose explicit last_counts list, has a length different
\* from the number of status names raises, returns no line and leaves self.last_counts as
\* it was.
C16_LengthMismatchRaises ==
    (/\ Called
     /\ \/ Len(sl_call.counts) # NumStatus
        \/ (sl_call.last_counts.kind = "list" /\ Len(sl_call.last_counts.val) # NumStatus))
    => /\ Raised
       /\ sl_result.entries = <<>>
       /\ last_counts = sl_before

\* a call with too few counts and last_counts=True raised the length error
C16_Witness ==
    /\ Len(sl_call.counts) = NumStatus - 1
    /\ sl_call.last_counts = PriorTrue
    /\ sl_result.outcome = "raise_counts_length"

\* ---------------------------------------------------- provide_input claims
CallersOf(d) == {t \in Callers : callers[t].dst = d}
SkipOnly(d) == \A t \in CallersOf(d) : callers[t].skip
AllDone(d) == \A t \in CallersOf(d) : At(t, "done")
PastLookup(t) == callers[t].pc \notin {"lookup"}
\* several callers with skip_existing=True race for a destination that did not exist
Race(d) == fs_before[d] = "absent" /\ SkipOnly(d) /\ Cardinality(CallersOf(d)) >= 2
\* every copy2 / render_file call of the callers of d fails or writes nothing
NothingWritable(d) ==
    \/ source = "missing"
    \/ source = "undecodable" /\ \A t \in CallersOf(d) : callers[t].render

\* C17 as stated: in a race for a destination, copy2 / render_file is called at most once,
\* and exactly once, writing the file, when all callers are through.
C17_ExactlyOnce ==
    \A d \in Dsts :
        Race(d) => /\ attempts[d] <= 1
                   /\ AllDone(d) => (attempts[d] = 1 /\ writes[d] = 1)

\* C17 amended: in a race for a destination the file is written at most once and the
\* callers check and copy one at a time; when the source can be read, copy2 / render_file is called exactly once in total; when the source
\* is missing, or cannot be decoded by any of the rendering callers, every caller calls it
\* and none writes the file.
C17_OnceWhenStaged ==
    \A d \in Dsts :
        Race(d) =>
            /\ writes[d] <= 1
            /\ Cardinality({t \in CallersOf(d) :
                               callers[t].pc \in {"check", "copy", "writing", "exit"}}) <= 1
            /\ source = "ok" => /\ attempts[d] <= 1
                                /\ AllDone(d) => (attempts[d] = 1 /\ writes[d] = 1)
            /\ (NothingWritable(d) /\ AllDone(d)) =>
                   (attempts[d] = Cardinality(CallersOf(d)) /\ writes[d] = 0)

\* all callers raced for one destination and are through; one of them copied
C17_Witness ==
    /\ Race("d1")
    /\ CallersOf("d1") = Callers
    /\ AllDone("d1")
    /\ source = "ok"
    /\ writes["d1"] = 1
    /\ fs["d1"] = "complete"

\* C18: every caller with skip_existing=True that has looked up its lock holds the lock
\* that the map has for its destination: callers of one destination have the same lock,
\* also when they looked it up before either entered it, and the map has exactly one lock
\* for each destination that was looked up.
C18_OneLockPerPath ==
    /\ \A t \in Callers :
          (callers[t].skip /\ PastLookup(t)) =>
              /\ callers[t].lock # 0
              /\ callers[t].lock = file_locks[callers[t].dst]
    /\ \A t, u \in Callers :
          (/\ callers[t].skip /\ callers[u].skip
           /\ PastLookup(t) /\ PastLookup(u)
           /\ callers[t].dst = callers[u].dst)
          => callers[t].lock = callers[u].lock
    /\ \A d, f \in Dsts : (d # f /\ file_locks[d] # 0) => file_locks[d] # file_locks[f]
    /\ locks_made = Cardinality({d \in Dsts : file_locks[d] # 0})

\* two callers looked up the lock of a new path before either of them entered it
C18_Witness ==
    /\ callers[1].skip /\ callers[2].skip
    /\ callers[1].dst = callers[2].dst
    /\ At(1, "enter") /\ At(2, "enter")
    /\ fs_before[callers[1].dst] = "absent"
    /\ callers[1].lock = callers[2].lock
    /\ callers[1].lock # 0

\* C19: a caller with skip_existing=True raises only when its own copy2 / render_file call
\* finds the source missing; in a race for a destination, a caller that comes after the one
\* that staged the file sees the file complete, calls neither copy2 nor render_file and
\* returns; no caller ever sees a half-written file.
C19_LoserReturns ==
    /\ \A t \in Callers :
          (callers[t].skip /\ callers[t].result \in {"raising", "raised"})
              => (source = "missing" /\ callers[t].copies = 1)
    /\ \A t \in Callers :
          (callers[t].skip /\ SkipOnly(callers[t].dst) /\ callers[t].saw = "present")
              => /\ callers[t].copies = 0
                 /\ callers[t].result \notin {"raising", "raised"}
                 /\ fs[callers[t].dst] = "complete"
    /\ \A d \in Dsts :
          (Race(d) /\ writes[d] > 0) =>
              \A t \in CallersOf(d) :
                  (callers[t].saw # "none" /\ callers[t].copies = 0) =>
                      /\ callers[t].saw = "present"
                      /\ At(t, "done") => callers[t].result = "returned"

\* one caller staged the file, the other came second, copied nothing and returned
C19_Witness ==
    /\ Race("d1")
    /\ AllDone("d1")
    /\ \E t, u \in CallersOf("d1") :
          /\ callers[t].copies = 1 /\ callers[t].result = "returned"
          /\ callers[u].copies = 0 /\ callers[u].saw = "present"
          /\ callers[u].result = "returned"

\* ------------------------------------- linearize_render_variables claims
\* C20: every call of linearize_render_variables on a mapping of texts ends: it returns,
\* also when a's value refers to b and b's to a, or a value refers to its own key.
C20_Terminates ==
    (\A k \in DOMAIN render_variables : render_variables[k] # NotText) => <>(lin_pc = "done")

\* the keys that the value of key k names
RefsOf(rv, k) == {rv[k][i] : i \in 1..Len(rv[k])} \cap DOMAIN rv
\* the keys reached from key k through one or more references
ReachOf(rv, k) ==
    LET one == RefsOf(rv, k)
        two == one \cup UNION {RefsOf(rv, j) : j \in one}
    IN  two \cup UNION {RefsOf(rv, j) : j \in two}
AllText(rv) == \A k \in DOMAIN rv : rv[k] # NotText
Acyclic(rv) == AllText(rv) /\ \A k \in DOMAIN rv : k \notin ReachOf(rv, k)
\* the text v with every {{name}} of a key replaced, transitively, by the key's value and
\* every other {{name}} removed; depth bounds the nesting, which an acyclic mapping of n
\* keys keeps below n
RECURSIVE Expand(_, _, _)
Expand(rv, v, depth) ==
    IF Len(v) = 0 THEN <<>>
    ELSE LET p == Head(v)
             first == IF ~IsToken(p) THEN <<p>>
                      ELSE IF p \in DOMAIN rv /\ depth > 0 THEN Expand(rv, rv[p], depth - 1)
                      ELSE <<>>
         IN  first \o Expand(rv, Tail(v), depth)

PassedIn(n) ==
    {p \in UNION {{<<c, k>> : k \in 1..Len(chunks[c])} : c \in Units} :
        chunks[p[1]][p[2]] = job_items[n]}

\* C32: every job file / job id is passed to exactly one atomic call, alone when unchunked
\* and with its chunk when chunked; no atomic call is made twice, and when the batch call
\* returns every one has been made once, whichever of them raised.
C32_ExactlyOnce ==
    phase # "called" =>
        /\ \A n \in 1..Len(job_items) : Cardinality(PassedIn(n)) = 1
        /\ \A c \in Units : /\ invoked[c] <= 1
                            /\ Len(chunks[c]) >= 1
                            /\ ~chunking => Len(chunks[c]) = 1
                            /\ \A k \in 1..Len(chunks[c]) :
                                   \E n \in 1..Len(job_items) : chunks[c][k] = job_items[n]
        /\ phase \in {"joined", "returned", "raised"} => \A c \in Units : invoked[c] = 1

\* a chunked batch call of several chunks on several workers returned after one of the
\* atomic calls raised
C32_Witness ==
    /\ phase = "returned"
    /\ chunking
    /\ Len(chunks) >= 2
    /\ pool_size >= 2
    /\ \E c \in Units : task_result[c] = "exc"
    /\ \A c \in Units : invoked[c] = 1
\* the exceptions of the calls that raised, in the order of their units
RECURSIVE RaisedFrom(_)
RaisedFrom(c) ==
    IF c > Len(chunks) THEN <<>>
    ELSE (IF task_result[c] = "exc" THEN <<Exc(c)>> ELSE <<>>) \o RaisedFrom(c + 1)

\* C33: unchunked cancel_batch / cleanup_batch return the exceptions of the job ids whose
\* call raised, one each, in the order of the job ids in the input list, and nothing for
\* the job ids whose call succeeded.
C33_ErrorsInInputOrder ==
    (phase = "returned" /\ ~chunking /\ op \in {"cancel", "cleanup"}) =>
        /\ Len(chunks) = Len(job_items)
        /\ \A c \in Units : chunks[c] = <<job_items[c]>>
        /\ ret = RaisedFrom(1)

\* an unchunked cancel of three job ids on two workers returned; the calls of the first
\* and the third job id raised, the call of the second succeeded
C33_Witness ==
    /\ phase = "returned" /\ ~chunking /\ op = "cancel"
    /\ pool_size >= 2
    /\ Len(job_items) = 3
    /\ task_result = <<"exc", "ok", "exc">>
    /\ ret = <<Exc(1), Exc(3)>>
\* ------------------------------------------------- further provide_input claims
\* C36: the lock map has an entry for a destination exactly when a provide_input call with
\* skip_existing=True has looked that destination up; calls without skip_existing create
\* none, and no step of provide_input, get_config or cleanup_dir removes or replaces an
\* entry.
C36_LockMapGrows ==
    /\ [](\A d \in Dsts :
            file_locks[d] # 0 <=>
                \E t \in Callers : callers[t].skip /\ callers[t].dst = d /\ PastLookup(t))
    /\ [][\A d \in Dsts : file_locks[d] # 0 => file_locks'[d] = file_locks[d]]_vars

\* the staging directory was removed after a call with skip_existing=True had created the
\* lock of its destination, and a call without skip_existing is through without an entry
C36_Witness ==
    /\ \E t \in Callers : /\ callers[t].skip
                          /\ callers[t].pc = "done"
                          /\ file_locks[callers[t].dst] # 0
                          /\ fs[callers[t].dst] = "gone"
    /\ \E t \in Callers : /\ ~callers[t].skip
                          /\ callers[t].pc = "done"
                          /\ file_locks[callers[t].dst] = 0
\* C37: a caller that leaves provide_input, by return or by an exception, holds no lock,
\* and no caller waits for ever for the lock of its destination: every call gets through
\* provide_input.
C37_NoWaitForever ==
    /\ [](\A t \in Callers : At(t, "done") => \A l \in Locks : lock_owner[l] # t)
    /\ <>[](\A t \in Callers : At(t, "done"))

\* two callers with skip_existing=True of one destination are through and both raised: the
\* second got the lock after the copy of the first had raised
C37_Witness ==
    /\ callers[1].skip /\ callers[2].skip
    /\ callers[1].dst = callers[2].dst
    /\ callers[1].lock # 0 /\ callers[1].lock = callers[2].lock
    /\ callers[1].result = "raised" /\ callers[2].result = "raised"
    /\ callers[1].copies = 1 /\ callers[2].copies = 1
    /\ \A l \in Locks : lock_owner[l] = 0
\* C38: a caller with skip_existing=True never finds its destination existing, and so
\* skips the copy, while another caller is writing that destination.
C38_NeverSeesPartial ==
    [][\A t \in Callers :
          (callers[t].skip /\ At(t, "check") /\ callers'[t].pc = "exit") =>
              \A u \in Callers : ~(At(u, "writing") /\ callers[u].dst = callers[t].dst)]_vars
\* ------------------------------------------------------- render_file claims
SourceUnreadable == rf_source \in {"missing", "undecodable"}

\* C22: a render_file call with silent=True whose source is missing or cannot be read as
\* text returns without raising and leaves the destination as it was; with silent=False it
\* raises.
C22_SilentSkips ==
    (rf_outcome # "none" /\ SourceUnreadable) =>
        IF rf_silent THEN rf_outcome = "returned" /\ rf_dst = rf_dst_before
        ELSE rf_outcome = "raised"

Wrote == rf_outcome = "returned" /\ rf_source = "text"
HasToken(s) == \E i \in 1..Len(s) : MatchLen(SubSeq(s, i, Len(s))) > 0

\* C35: after a render_file call that wrote the destination, the destination holds no
\* {{name}} token.
C35_NoTokenLeft == Wrote => ~HasToken(rf_dst.content)

\* ------------------------------------------------ staging directory claims
Constructed == fd_pc # "new"
CallerSupplied == Constructed /\ ~fd_tmp
DirExists == fd_self.dir \in fd_exists

\* C23: a directory that the caller supplied, not one created as a temporary directory,
\* exists for as long as no cleanup_dir(force=True) was called: neither __del__ nor
\* cleanup_dir(force=False) removes it.
C23_SuppliedDirKept ==
    (CallerSupplied /\ ~fd_forced) => DirExists

\* C24: a cleanup_dir call, forced or not, or the one of __del__, made when the directory
\* is already gone changes nothing and does not raise.
C24_CleanupIdempotent ==
    (fd_last.op \in {"cleanup_dir", "del"} /\ fd_self.dir \notin fd_exists_before) =>
        /\ fd_exists = fd_exists_before
        /\ ~fd_last.raised

\* the directory was removed, and a forced cleanup_dir was called after that
C24_Witness ==
    /\ fd_last.op = "cleanup_dir"
    /\ fd_last.force
    /\ fd_self.dir \notin fd_exists_before
    /\ fd_self.cleanup
    /\ fd_exists_before # {}

\* ------------------------------------------------------- get_config claims
\* C25: every configuration that get_config returns has, for every attribute of
\* config_attrs, the content of the override when kwargs has the attribute and of the
\* instance attribute otherwise; whatever the callers do to the configurations they got,
\* the instance attributes and kwargs keep their content, so that a later get_config call
\* returns the same content again.
C25_ConfigIsDeepCopy ==
    /\ ContentOf(gc_heap, gc_self) = gc_orig.self
    /\ ContentOf(gc_heap, gc_kwargs) = gc_orig.kwargs
    /\ \A c \in 1..Len(gc_returned) :
          /\ DOMAIN gc_returned[c] = AttrSet
          /\ \A a \in AttrSet :
                gc_returned[c][a] = IF a \in DOMAIN gc_kwargs THEN gc_orig.kwargs[a]
                                    ELSE gc_orig.self[a]

\* a list inside the render_variables of the first configuration was changed, and a
\* second get_config call returned the instance's unchanged render_variables
C25_Witness ==
    /\ Len(gc_cfgs) = 2
    /\ gc_mutations > 0
    /\ "render_variables" \notin DOMAIN gc_kwargs
    /\ gc_orig.self["render_variables"] = <<"[", "v", "[", "w", "]", "]">>
    /\ IsRef(gc_cfgs[1]["render_variables"])
    /\ Content(gc_heap, gc_cfgs[1]["render_variables"], 2) = <<"[", "v", "[", "w", "m", "]", "]">>
    /\ gc_returned[2]["render_variables"] = <<"[", "v", "[", "w", "]", "]">>

\* ----------------------------------------------------- JobArguments claims
\* text.split(" ")
RECURSIVE Split(_, _)
Split(text, cur) ==
    IF Len(text) = 0 THEN <<cur>>
    ELSE IF Head(text) = Space THEN <<cur>> \o Split(Tail(text), <<>>)
    ELSE Split(Tail(text), Append(cur, Head(text)))

\* C26: get_args returns six tokens: the module name, the type name, the encoded parameter
\* string, the encoded branches, "yes" or "no" for auto_retry, the encoded dashboard data;
\* no token holds a space, and join() is the six tokens separated by single spaces.
C26_SixTokens ==
    /\ ja_args # <<>> =>
          /\ Len(ja_args) = 6
          /\ ja_args[1] = ModuleName
          /\ ja_args[2] = ClassName
          /\ b64decode(ja_args[3]) = OrDash(ja_task_params)
          /\ b64decode(ja_args[4]) = OrDash(JoinSpace(TextsOf(ja_branches)))
          /\ ja_args[5] = (IF ja_auto_retry THEN TextYes ELSE TextNo)
          /\ b64decode(ja_args[6]) = OrDash(JoinSpace(TextsOf(ja_dashboard_data)))
          /\ \A i \in 1..6 : \A j \in 1..Len(ja_args[i]) : ja_args[i][j] # Space
    /\ ja_joined # <<>> =>
          /\ Len(Split(ja_joined, <<>>)) = 6
          /\ ja_args # <<>> => Split(ja_joined, <<>>) = ja_args

\* get_args and join were called on an object whose parameter string, branches and
\* dashboard data are all empty
C26_Witness ==
    /\ ja_args # <<>>
    /\ ja_joined # <<>>
    /\ ja_task_params = <<>>
    /\ ja_branches = <<>>
    /\ ja_dashboard_data = <<>>
    /\ Len(Split(ja_joined, <<>>)) = 6

HasSpace(t) == \E j \in 1..Len(t) : t[j] = Space
Decoded(token) == b64decode(token)

\* C27 as stated: decoding the token of the parameter string gives the string back, and
\* decoding the token of the branches and splitting it on single spaces gives the list back.
C27_Reversible ==
    ja_args # <<>> =>
        /\ Decoded(ja_args[3]) = ja_task_params
        /\ Split(Decoded(ja_args[4]), <<>>) = TextsOf(ja_branches)

\* C27 amended: decoding the token of a string gives the string back when it is not empty,
\* and "-" for the empty string; decoding the token of a list gives the texts of its values
\* joined by spaces, or "-" when that is empty, so that splitting it on single spaces gives
\* the texts of the values back when the joined text is not empty and no value holds a
\* space.
C27_ReversibleButSentinel ==
    ja_args # <<>> =>
        LET joined == JoinSpace(TextsOf(ja_branches))
        IN  /\ ja_task_params # <<>> => Decoded(ja_args[3]) = ja_task_params
            /\ ja_task_params = <<>> => Decoded(ja_args[3]) = <<Dash>>
            /\ joined # <<>> => Decoded(ja_args[4]) = joined
            /\ joined = <<>> => Decoded(ja_args[4]) = <<Dash>>
            /\ (joined # <<>> /\ \A i \in 1..Len(ja_branches) : ~HasSpace(ja_branches[i].text))
                   => Split(Decoded(ja_args[4]), <<>>) = TextsOf(ja_branches)

\* the empty parameter string was encoded, and it decodes to "-"; the two branches were
\* recovered
C27_Witness ==
    /\ ja_args # <<>>
    /\ ja_task_params = <<>>
    /\ Decoded(ja_args[3]) = <<Dash>>
    /\ Len(ja_branches) = 2
    /\ Split(Decoded(ja_args[4]), <<>>) = TextsOf(ja_branches)

\* ----------------------------------------------------- JobInputFile claims
Built == jf_pc = "done"
PlainPath == jf_path = None
OnlySet(names) == \A n \in DOMAIN jf_in : (jf_in[n] # None) <=> (n \in names)

\* C28: constructed with copy=False alone, share, postfix and render_local are False and no
\* warning is logged for them; constructed with copy=False and postfix=True, the
\* constructor returns with postfix True and copy False and logs a warning.
C28_CopyFalse ==
    (Built /\ PlainPath /\ IsFalse(jf_in.copy)) =>
        /\ OnlySet({"copy"}) => (~jf_flags.share /\ ~jf_flags.postfix /\ ~jf_flags.render_local
                                 /\ ~jf_flags.copy)
        /\ (OnlySet({"copy", "postfix"}) /\ IsTrue(jf_in.postfix)) =>
               /\ jf_flags.postfix
               /\ ~jf_flags.copy
               /\ "no copy but postfix" \in jf_warnings

\* constructed with copy=False and postfix=True
C28_Witness ==
    /\ Built
    /\ PlainPath
    /\ OnlySet({"copy", "postfix"})
    /\ IsFalse(jf_in.copy)
    /\ IsTrue(jf_in.postfix)
    /\ jf_warnings = {"no copy but postfix"}

\* the inference table of the normalization: rule 1 apart, a rule is the flag and the value
\* that trigger it and the defaults it gives to flags that are still unset
Fill(c, s, f, p, rl, rj) ==
    [copy |-> c, share |-> s, forward |-> f, postfix |-> p, render_local |-> rl, render_job |-> rj]
Table ==
    << [flag |-> "copy", is |-> FALSE,
        fills |-> Fill(None, Some(FALSE), None, Some(FALSE), Some(FALSE), None)],
       [flag |-> "share", is |-> TRUE,
        fills |-> Fill(Some(TRUE), None, Some(FALSE), Some(FALSE), Some(FALSE), None)],
       [flag |-> "forward", is |-> TRUE,
        fills |-> Fill(Some(FALSE), Some(FALSE), None, Some(FALSE), Some(FALSE), None)],
       [flag |-> "postfix", is |-> TRUE,
        fills |-> Fill(Some(TRUE), Some(FALSE), Some(FALSE), None, None, None)],
       [flag |-> "render_local", is |-> TRUE,
        fills |-> Fill(Some(TRUE), Some(FALSE), Some(FALSE), None, None, Some(FALSE))],
       [flag |-> "render_job", is |-> TRUE,
        fills |-> Fill(None, None, Some(FALSE), None, Some(FALSE), None)] >>
TableDefaults == Fill(TRUE, FALSE, FALSE, TRUE, TRUE, FALSE)

\* rule 1 of the table
TableRule1(f) ==
    [n \in FlagNames |->
        IF f.render = None \/ f.render_local # None \/ f.render_job # None THEN f[n]
        ELSE IF n = "render_local" THEN f.render
        ELSE IF n = "render_job" THEN Some(FALSE)
        ELSE f[n]]

\* rules i.. of the table applied in order to the flags f; a trigger is read from f itself
\* (seen = "current") or from the caller's arguments orig (seen = "original")
RECURSIVE TableFrom(_, _, _, _)
TableFrom(i, f, orig, seen) ==
    IF i > Len(Table) THEN f
    ELSE LET r == Table[i]
             read == IF seen = "current" THEN f ELSE orig
             fires == read[r.flag] = Some(r.is)
             g == [n \in FlagNames |->
                      IF fires /\ f[n] = None /\ r.fills[n] # None THEN r.fills[n] ELSE f[n]]
         IN  TableFrom(i + 1, g, orig, seen)

TableResolved(in, seen) ==
    LET f == TableFrom(1, TableRule1(in), in, seen)
    IN  [n \in FlagNames |-> IF f[n] = None THEN TableDefaults[n] ELSE f[n][1]]

\* C29: for every combination of the seven arguments the constructor returns, every flag
\* the caller passed keeps its value, and the attributes are those of the table's rules 1 to
\* 7 applied in order, each filling only unset flags, followed by the residual defaults.
C29_TableInOrder ==
    (Built /\ PlainPath) =>
        /\ jf_pc # "raised"
        /\ \A n \in FlagNames : jf_in[n] # None => jf_flags[n] = jf_in[n][1]
        /\ jf_flags = TableResolved(jf_in, "current")

\* constructed with share=True, forward=True and render=True: rules 3 and 4 both fire and
\* rule 1 fills render_local
C29_Witness ==
    /\ Built
    /\ PlainPath
    /\ OnlySet({"share", "forward", "render"})
    /\ IsTrue(jf_in.share) /\ IsTrue(jf_in.forward) /\ IsTrue(jf_in.render)
    /\ jf_flags = Fill(TRUE, TRUE, TRUE, FALSE, TRUE, FALSE)

\* C30: reading the rules' triggers from the caller's arguments gives the same attributes
\* as reading them from the flags that earlier rules have filled in.
C30_TriggersOnInputs ==
    (Built /\ PlainPath) =>
        /\ jf_flags = TableResolved(jf_in, "original")
        /\ TableResolved(jf_in, "original") = TableResolved(jf_in, "current")

\* constructed with render=True alone: rule 1 fills render_local with True, which the
\* trigger of rule 6 then reads
C30_Witness ==
    /\ Built
    /\ PlainPath
    /\ OnlySet({"render"})
    /\ IsTrue(jf_in.render)
    /\ IsTrue(Convenience(jf_in).render_local)
    /\ WhenRenderLocal(Convenience(jf_in)) # Convenience(jf_in)
    /\ jf_flags = Fill(TRUE, FALSE, FALSE, TRUE, TRUE, FALSE)

\* the combinations of attributes that have no effect or contradict each other
VoidCombination(a) ==
    \/ ~a.copy /\ (a.postfix \/ a.share \/ a.render_local)
    \/ a.copy /\ a.forward
    \/ a.share /\ a.render_local
    \/ a.render_local /\ a.render_job
SetCount == Cardinality({n \in DOMAIN jf_in : jf_in[n] # None})

\* C39: a constructor call that passes at most one of the seven flags, as True or as False,
\* stores no void combination of attributes and logs no warning.
C39_SingleFlagClean ==
    (Built /\ PlainPath /\ SetCount <= 1) =>
        /\ ~VoidCombination(jf_flags)
        /\ jf_warnings = {}

\* constructed with forward=True alone: rule 4 gives copy False, which no residual default
\* would have given
C39_Witness ==
    /\ Built
    /\ PlainPath
    /\ OnlySet({"forward"})
    /\ IsTrue(jf_in.forward)
    /\ jf_flags = Fill(FALSE, FALSE, TRUE, FALSE, FALSE, FALSE)
    /\ jf_warnings = {}

\* --------------------------------------------------- further status_line claims
CallRaised(r) == r.outcome \notin {"line", NoResult.outcome}

\* C34: after any sequence of status_line calls self.last_counts has as many entries as
\* there are status names, and a call that raises leaves self.last_counts as it was.
C34_LastCountsLength ==
    /\ [](Len(last_counts) = Len(StatusNames))
    /\ [][CallRaised(sl_result') => last_counts' = last_counts]_vars

\* a call with counts of a wrong length raised after an earlier call had stored counts
C34_Witness ==
    /\ sl_result.outcome = "raise_counts_length"
    /\ Len(sl_call.counts) # Len(StatusNames)
    /\ last_counts = sl_reported
    /\ last_counts # Zeros(Len(StatusNames))

\* ------------------------------------------------------- postfix_file claims
\* the base name of a path: the text behind its last "/"
BaseName(p) == SubSeq(p, LastSlash(p) + 1, Len(p))
\* the base name up to its first ".", and from its first "." on
Stem(b) == IF DotFrom(b, 1) = 0 THEN b ELSE SubSeq(b, 1, DotFrom(b, 1) - 1)
Extensions(b) == IF DotFrom(b, 1) = 0 THEN <<>> ELSE SubSeq(b, DotFrom(b, 1), Len(b))
PostfixCalled == pf_pc # "new"

\* C31: with a postfix string the result has the directory part of the path and the base
\* name with the postfix put right before its first "."; with add_hash a "_" and a hash
\* come before the postfix; a second call with the same arguments returns the same.
C31_PostfixBeforeFirstDot ==
    (PostfixCalled /\ pf_postfix.kind = "str" /\ Len(pf_postfix.str) > 0) =>
        LET b == BaseName(pf_path)
            hash == SubSeq(BaseName(pf_first), Len(Stem(b)) + 2,
                           Len(BaseName(pf_first)) - Len(pf_postfix.str) - Len(Extensions(b)))
        IN  /\ PathSplit(pf_first).dirname = PathSplit(pf_path).dirname
            /\ ~pf_add_hash => BaseName(pf_first) = Stem(b) \o pf_postfix.str \o Extensions(b)
            /\ pf_add_hash =>
                  /\ BaseName(pf_first) =
                        Stem(b) \o <<"_">> \o hash \o pf_postfix.str \o Extensions(b)
                  /\ Len(hash) > 0
                  /\ \A k \in 1..Len(hash) : hash[k] \notin {"/", "."}
            /\ pf_pc = "again" => pf_result = pf_first

\* "/a.a." with the postfix "_1" and a hash gave "/a_haa_1.a.", twice
C31_Witness ==
    /\ pf_pc = "again"
    /\ pf_path = <<"/", "a", ".", "a", ".">>
    /\ pf_postfix = StrPostfix(<<"_", "1">>)
    /\ pf_add_hash
    /\ pf_first = <<"/", "a", "_", "h", "a", "a", "_", "1", ".", "a", ".">>
    /\ pf_result = pf_first

====
